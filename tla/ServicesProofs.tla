---------------------------- MODULE ServicesProofs -----------------------------
(***************************************************************************)
(* Proofs about the numbers kept beside rows, for any number of users,     *)
(* rows and overlapping requests: the counter saveMaps and the parts that  *)
(* are not saved beside the whole map (MapSaves), and what a question and  *)
(* a note say of the comments and answers, with whom the messages about    *)
(* them go to (NoteComments), and the counts and likes that the migrations *)
(* start the tables with (Migrations).                                     *)
(***************************************************************************)
EXTENDS Services, StatCacheProofs, FiniteSums

--------------------------------------------------------------------------------
(* MapSaves *)

Named(u, c, s) == [user |-> u, creater |-> c, part |-> s]

Pending(u) == { r \in MapRequests : SaveAt(r, "decrement") /\ Row(r).user = u }

(* What a request may be doing: nothing, or something about one map. *)
Doing == {NoSave} \cup [at : SaveSteps \ {"idle"}, row : SavedRow]

SavesTyped ==
  /\ saved \subseteq SavedRow /\ told \subseteq SavedRow
  /\ saveMaps \in [Savers -> Nat] /\ uncounted \in [Savers -> Nat]
  /\ follows \subseteq Savers \X Creaters
  /\ sreq \in [MapRequests -> Doing]
  /\ overlapped \in BOOLEAN

Finite == IsFiniteSet(saved) /\ \A u \in Savers : IsFiniteSet(Pending(u))

Linked == \A m \in saved : <<m.user, m.creater>> \in follows

SameMap(r, q) == Row(r).user = Row(q).user /\ Row(r).creater = Row(q).creater

(* Without an overlap, requests are about different maps, a request that is *)
(* about to write has found no row of the whole map and nobody has written  *)
(* one, and no part is beside the whole map.                                *)
Separate ==
  ~overlapped =>
    /\ \A r, q \in MapRequests : r # q /\ sreq[r] # NoSave /\ sreq[q] # NoSave => ~SameMap(r, q)
    /\ \A r \in MapRequests :
         SaveAt(r, "write") => Named(Row(r).user, Row(r).creater, Whole) \notin saved
    /\ \A m, n \in saved :
         m.user = n.user /\ m.creater = n.creater /\ m.part = Whole => n.part = Whole

SavesInv == SavesTyped /\ Finite /\ MapSavesCounted /\ Linked /\ Separate

--------------------------------------------------------------------------------
(* What the rows of a request are *)

(* A request that is not idle is about a row. *)
LEMMA DoingFacts ==
  ASSUME SavesTyped, NEW r \in MapRequests
  PROVE  /\ sreq[r].at \in SaveSteps
         /\ sreq[r].at = "idle" <=> sreq[r] = NoSave
         /\ sreq[r].at # "idle" => Row(r) \in SavedRow
<1>1. sreq[r] \in Doing
  BY DEF SavesTyped
<1>2. CASE sreq[r] = NoSave
  BY <1>2 DEF NoSave, SaveSteps
<1>3. CASE sreq[r] \in [at : SaveSteps \ {"idle"}, row : SavedRow]
  BY <1>3 DEF NoSave, Row
<1> QED
  BY <1>1, <1>2, <1>3 DEF Doing

(* A request goes on or ends, and the others stay where they are. *)
LEMMA GoingOn ==
  ASSUME SavesTyped, NEW r \in MapRequests, NEW at \in SaveSteps, SaveGoto(r, at),
         sreq[r].at # "idle"
  PROVE  /\ sreq' \in [MapRequests -> Doing]
         /\ sreq'[r].at = at
         /\ at = "idle" => sreq'[r] = NoSave
         /\ at # "idle" => sreq'[r].row = sreq[r].row /\ sreq'[r] # NoSave
         /\ \A q \in MapRequests : q # r => sreq'[q] = sreq[q]
<1>1. sreq[r] \in [at : SaveSteps \ {"idle"}, row : SavedRow]
  BY DEF SavesTyped, Doing, NoSave
<1>2. sreq \in [MapRequests -> Doing]
  BY DEF SavesTyped
<1>3. CASE at = "idle"
  BY <1>2, <1>3 DEF SaveGoto, NoSave, Doing
<1>4. CASE at # "idle"
  <2>1. sreq' = [sreq EXCEPT ![r] = [sreq[r] EXCEPT !.at = at]]
    BY <1>4 DEF SaveGoto
  <2>2. [sreq[r] EXCEPT !.at = at] \in [at : SaveSteps \ {"idle"}, row : SavedRow]
    BY <1>1, <1>4
  <2> QED
    BY <1>1, <1>2, <1>4, <2>1, <2>2 DEF Doing, NoSave
<1> QED
  BY <1>3, <1>4

(* The rows that a user has saved of one map are as many as its parts. *)
LEMMA PartsCounted ==
  ASSUME saved \subseteq SavedRow, IsFiniteSet(saved), NEW u \in Savers, NEW c \in Creaters
  PROVE  LET rows == { m \in saved : m.user = u /\ m.creater = c } IN
         /\ IsFiniteSet(rows)
         /\ Cardinality(PartsOf(u, c)) = Cardinality(rows)
<1> DEFINE rows == { m \in saved : m.user = u /\ m.creater = c }
           f == [m \in rows |-> m.part]
<1>1. IsFiniteSet(rows)
  BY FS_Subset
<1>2. f \in Bijection(rows, PartsOf(u, c))
  <2>1. PartsOf(u, c) = { m.part : m \in rows }
    BY DEF PartsOf
  <2>2. f \in [rows -> PartsOf(u, c)]
    BY <2>1
  <2>3. \A s \in PartsOf(u, c) : \E m \in rows : f[m] = s
    BY <2>1
  <2>4. \A m, n \in rows : f[m] = f[n] => m = n
    BY DEF SavedRow
  <2> QED
    BY <2>2, <2>3, <2>4 DEF Bijection, Injection, Surjection, IsInjective
<1>3. ExistsBijection(rows, PartsOf(u, c))
  BY <1>2 DEF ExistsBijection
<1> QED
  BY <1>1, <1>3, FS_Bijection

--------------------------------------------------------------------------------
(* The steps *)

(* No map is saved at the start. *)
LEMMA InitSaves == SavesInit => SavesInv
<1> SUFFICES ASSUME SavesInit
             PROVE  SavesInv
  OBVIOUS
<1>1. \A r \in MapRequests : sreq[r] = NoSave /\ sreq[r].at = "idle"
  BY DEF SavesInit, NoSave
<1>2. SavesTyped
  BY DEF SavesInit, SavesTyped, Doing
<1>3. \A u \in Savers : Pending(u) = {} /\ SavedList(u) = {}
  BY <1>1 DEF Pending, SavedList, SavedBy, SavesInit, SaveAt
<1>4. Finite
  BY <1>3, FS_EmptySet DEF Finite, SavesInit
<1>5. MapSavesCounted
  <2>1. \A u \in Savers : saveMaps[u] = 0 /\ uncounted[u] = 0
    BY DEF SavesInit
  <2>2. \A u \in Savers : Cardinality(SavedList(u)) = 0 /\ Cardinality(Pending(u)) = 0
    BY <1>3, FS_EmptySet
  <2> QED
    BY <2>1, <2>2 DEF MapSavesCounted, Pending
<1>6. Linked /\ Separate
  BY <1>1 DEF SavesInit, Linked, Separate, SaveAt
<1> QED
  BY <1>2, <1>4, <1>5, <1>6 DEF SavesInv

(* A step that changes neither rows nor counters, and after which the same *)
(* deletions are between their statements, keeps the counts.               *)
LEMMA QuietStep ==
  ASSUME SavesInv, SavesTyped', UNCHANGED <<saved, saveMaps, uncounted, follows>>,
         \A u \in Savers : Pending(u)' = Pending(u)
  PROVE  Finite' /\ MapSavesCounted' /\ Linked'
BY DEF SavesInv, Finite, MapSavesCounted, Linked, SavedList, SavedBy, Pending

(* A request that begins has written nothing. *)
LEMMA BeginKeeps ==
  ASSUME SavesInv, NEW r \in MapRequests, NEW kept \in SavedRow, NEW at \in {"find", "delete"},
         BeginSave(r, kept, at)
  PROVE  SavesInv'
<1> USE DEF BeginSave, SavesInv
<1>1. sreq' = [sreq EXCEPT ![r] = [at |-> at, row |-> kept]] /\ sreq[r] = NoSave
  OBVIOUS
<1>2. SavesTyped'
  BY DEF SavesTyped, Doing, SaveSteps
<1>3. /\ sreq'[r].at = at /\ sreq'[r].row = kept
      /\ \A q \in MapRequests : q # r => sreq'[q] = sreq[q]
  BY <1>1 DEF SavesTyped
<1>4. \A u \in Savers : Pending(u)' = Pending(u)
  BY <1>1, <1>3 DEF Pending, SaveAt, Row, NoSave
<1>5. Separate'
  <2> SUFFICES ASSUME ~overlapped'
               PROVE  Separate'
    BY DEF Separate
  <2>1. ~overlapped /\ \A q \in MapRequests :
          sreq[q] # NoSave => ~(Row(q).user = kept.user /\ Row(q).creater = kept.creater)
    OBVIOUS
  <2>2. \A q, p \in MapRequests :
          q # p /\ sreq'[q] # NoSave /\ sreq'[p] # NoSave => ~SameMap(q, p)'
    BY <1>1, <1>3, <2>1 DEF Separate, SameMap, Row
  <2>3. \A q \in MapRequests :
          SaveAt(q, "write")' => Named(Row(q).user, Row(q).creater, Whole)' \notin saved
    BY <1>3, <2>1 DEF Separate, SaveAt, Row, Named
  <2> QED
    BY <2>1, <2>2, <2>3 DEF Separate
<1> QED
  BY <1>2, <1>4, <1>5, QuietStep

(* The requests that go on without touching the rows *)
LEMMA GoingKeeps ==
  ASSUME SavesInv, NEW r \in MapRequests,
         FindWhole(r) \/ WriteFails(r) \/ TellCreater(r) \/ TellFails(r)
  PROVE  SavesInv'
<1> USE DEF SavesInv
<1>1. /\ sreq[r].at \in {"find", "write", "message"}
      /\ UNCHANGED <<saved, saveMaps, uncounted, follows, overlapped>>
      /\ SaveGoto(r, "idle") \/ (FindWhole(r) /\ SaveGoto(r, "write"))
  BY DEF FindWhole, WriteFails, TellCreater, TellFails, SaveAt
<1>2. PICK at \in {"idle", "write"} : SaveGoto(r, at) /\ (at = "write" => FindWhole(r))
  BY <1>1
<1>3. /\ sreq' \in [MapRequests -> Doing]
      /\ sreq'[r].at = at
      /\ at = "idle" => sreq'[r] = NoSave
      /\ at # "idle" => sreq'[r].row = sreq[r].row /\ sreq'[r] # NoSave
      /\ \A q \in MapRequests : q # r => sreq'[q] = sreq[q]
  BY <1>1, <1>2, GoingOn DEF SaveSteps
<1>4. Row(r) \in SavedRow /\ sreq[r] # NoSave
  BY <1>1, DoingFacts
<1>5. told' \subseteq SavedRow
  <2>1. CASE TellCreater(r)
    <3>1. [Row(r) EXCEPT !.part = IF @ = Default THEN Whole ELSE @] \in SavedRow
      BY <1>4 DEF SavedRow, Parts
    <3> QED
      BY <2>1, <3>1 DEF TellCreater, SavesTyped
  <2>2. CASE ~TellCreater(r)
    BY <2>2 DEF FindWhole, WriteFails, TellFails, SavesTyped
  <2> QED
    BY <2>1, <2>2
<1>6. SavesTyped'
  BY <1>1, <1>3, <1>5 DEF SavesTyped
<1>7. \A u \in Savers : Pending(u)' = Pending(u)
  BY <1>1, <1>3 DEF Pending, SaveAt, Row
<1>8. Separate'
  <2> SUFFICES ASSUME ~overlapped
               PROVE  Separate'
    BY <1>1 DEF Separate
  <2>1. \A q, p \in MapRequests :
          q # p /\ sreq'[q] # NoSave /\ sreq'[p] # NoSave => ~SameMap(q, p)'
    BY <1>3, <1>4 DEF Separate, SameMap, Row
  <2>2. at = "write" => Named(Row(r).user, Row(r).creater, Whole) \notin saved
    <3> SUFFICES ASSUME FindWhole(r), SaveGoto(r, "write"), at = "write"
                 PROVE  Whole \notin PartsOf(Row(r).user, Row(r).creater)
      BY <1>2 DEF PartsOf, Named
    <3>1. CASE Whole \in PartsOf(Row(r).user, Row(r).creater)
      <4>1. SaveGoto(r, "idle")
        BY <3>1 DEF FindWhole
      <4>2. sreq'[r].at = "idle"
        BY <4>1, <1>1, GoingOn DEF SaveSteps
      <4> QED
        BY <4>2, <1>3
    <3> QED
      BY <3>1
  <2>3. \A q \in MapRequests :
          SaveAt(q, "write")' => Named(Row(q).user, Row(q).creater, Whole)' \notin saved
    BY <1>3, <2>2 DEF Separate, SaveAt, Row, Named
  <2> QED
    BY <1>1, <2>1, <2>3 DEF Separate
<1> QED
  BY <1>1, <1>6, <1>7, <1>8, QuietStep

(* The transaction of createOne: what the whole map replaces is counted off. *)
LEMMA WriteKeeps ==
  ASSUME SavesInv, NEW r \in MapRequests, WriteSave(r)
  PROVE  SavesInv'
<1> USE DEF SavesInv
<1> DEFINE kept == Row(r)
           gone == { m \in saved : kept.part = Whole /\ m.user = kept.user /\ m.creater = kept.creater }
<1>1. /\ SaveAt(r, "write") /\ kept \notin saved \ gone
      /\ saved' = (saved \ gone) \cup {kept}
      /\ saveMaps' = [saveMaps EXCEPT ![kept.user] = @ - Replaced(kept) + 1]
      /\ follows' = follows \cup {<<kept.user, kept.creater>>}
      /\ SaveGoto(r, "message")
      /\ UNCHANGED <<told, sbegun, uncounted, overlapped>>
  BY DEF WriteSave
<1>2. /\ kept \in SavedRow /\ sreq[r] # NoSave /\ sreq[r].at = "write"
      /\ kept.user \in Savers /\ kept.creater \in Creaters
  BY <1>1, DoingFacts DEF SaveAt, SavedRow
<1>3. /\ sreq' \in [MapRequests -> Doing]
      /\ sreq'[r].at = "message" /\ sreq'[r].row = kept
      /\ \A q \in MapRequests : q # r => sreq'[q] = sreq[q]
  BY <1>1, <1>2, GoingOn DEF SaveSteps, Row
<1>4. saved \subseteq SavedRow /\ IsFiniteSet(saved)
  BY DEF SavesTyped, Finite
<1>5. IsFiniteSet(gone) /\ Cardinality(gone) = Replaced(kept)
  <2>1. CASE kept.part = Whole
    BY <1>2, <1>4, <2>1, PartsCounted DEF Replaced
  <2>2. CASE kept.part # Whole
    <3>1. gone = {}
      BY <2>2
    <3> QED
      BY <2>2, <3>1, FS_EmptySet DEF Replaced
  <2> QED
    BY <2>1, <2>2
<1>6. \A u \in Savers : IsFiniteSet(SavedBy(u)) /\ Cardinality(SavedBy(u)) \in Nat
  BY <1>4, FS_Subset, FS_CardinalityType DEF SavedBy
<1>7. \A u \in Savers : Pending(u)' = Pending(u)
  BY <1>2, <1>3 DEF Pending, SaveAt, Row
<1>8. \A u \in Savers : IsFiniteSet(Pending(u)) /\ Cardinality(Pending(u)) \in Nat
  BY FS_CardinalityType DEF Finite
<1>9. \A u \in Savers : saveMaps[u] \in Nat /\ uncounted[u] \in Nat
  BY DEF SavesTyped
<1>10. \A u \in Savers : saveMaps[u] = Cardinality(SavedBy(u)) + uncounted[u] + Cardinality(Pending(u))
  BY DEF MapSavesCounted, SavedList, Pending
<1>11. Cardinality(SavedBy(kept.user))' = Cardinality(SavedBy(kept.user)) - Replaced(kept) + 1
       /\ Replaced(kept) \in Nat /\ Replaced(kept) <= Cardinality(SavedBy(kept.user))
  <2> DEFINE rest == SavedBy(kept.user) \ gone
  <2>1. gone \subseteq SavedBy(kept.user)
    BY DEF SavedBy
  <2>2. IsFiniteSet(rest) /\ Cardinality(rest) = Cardinality(SavedBy(kept.user)) - Replaced(kept)
    <3>1. SavedBy(kept.user) \cap gone = gone
      BY <2>1
    <3>2. IsFiniteSet(SavedBy(kept.user))
      BY <1>2, <1>6
    <3> HIDE DEF gone
    <3>3. /\ IsFiniteSet(SavedBy(kept.user) \ gone)
          /\ Cardinality(SavedBy(kept.user) \ gone)
               = Cardinality(SavedBy(kept.user)) - Cardinality(SavedBy(kept.user) \cap gone)
      BY <3>2, FS_Difference
    <3> QED
      BY <3>1, <3>3, <1>5
  <2>3. { m \in saved' : m.user = kept.user } = rest \cup {kept} /\ kept \notin rest
    BY <1>1, <2>1 DEF SavedBy
  <2>4. Cardinality(rest \cup {kept}) = Cardinality(rest) + 1
    BY <2>2, <2>3, FS_AddElement
  <2>5. Replaced(kept) \in Nat /\ Replaced(kept) <= Cardinality(SavedBy(kept.user))
    BY <2>1, <1>2, <1>5, <1>6, FS_Subset, FS_CardinalityType
  <2>6. SavedBy(kept.user)' = { m \in saved' : m.user = kept'.user }
    BY DEF SavedBy
  <2>7. Cardinality({ m \in saved' : m.user = kept.user })
          = Cardinality(SavedBy(kept.user)) - Replaced(kept) + 1
    BY <2>2, <2>3, <2>4
  <2>8. kept' = kept
    BY <1>3 DEF Row
  <2> QED
    BY <2>5, <2>6, <2>7, <2>8
<1>12. \A u \in Savers : u # kept.user => { m \in saved' : m.user = u } = SavedBy(u)
  BY <1>1 DEF SavedBy
<1>13. SavesTyped'
  <2>1. saveMaps[kept.user] - Replaced(kept) + 1 \in Nat
    BY <1>2, <1>6, <1>8, <1>9, <1>10, <1>11
  <2>2. saveMaps' \in [Savers -> Nat]
    BY <1>1, <2>1 DEF SavesTyped
  <2>3. follows' \subseteq Savers \X Creaters
    BY <1>1, <1>2 DEF SavesTyped
  <2> QED
    BY <1>1, <1>2, <1>3, <2>2, <2>3 DEF SavesTyped
<1>14. Finite'
  BY <1>1, <1>4, <1>7, FS_Difference, FS_AddElement DEF Finite
<1>15. MapSavesCounted'
  <2> SUFFICES ASSUME NEW u \in Savers
               PROVE  saveMaps'[u] = Cardinality({ m \in saved' : m.user = u }) + uncounted'[u]
                                     + Cardinality(Pending(u)')
    BY DEF MapSavesCounted, SavedList, SavedBy, Pending
  <2>1. CASE u = kept.user
    <3>1. saveMaps'[u] = saveMaps[u] - Replaced(kept) + 1
      BY <1>1, <2>1 DEF SavesTyped
    <3>2. kept' = kept
      BY <1>3 DEF Row
    <3>3. Cardinality({ m \in saved' : m.user = u }) = Cardinality(SavedBy(u)) - Replaced(kept) + 1
      BY <1>11, <2>1, <3>2 DEF SavedBy
    <3> QED
      BY <3>1, <3>3, <1>1, <1>6, <1>7, <1>8, <1>9, <1>10, <1>11
  <2>2. CASE u # kept.user
    <3>1. saveMaps'[u] = saveMaps[u]
      BY <1>1, <2>2 DEF SavesTyped
    <3> QED
      BY <3>1, <2>2, <1>1, <1>7, <1>10, <1>12
  <2> QED
    BY <2>1, <2>2
<1>16. Linked'
  BY <1>1 DEF Linked
<1>17. Separate'
  <2> SUFFICES ASSUME ~overlapped
               PROVE  Separate'
    BY <1>1 DEF Separate
  <2>1. \A q, p \in MapRequests :
          q # p /\ sreq'[q] # NoSave /\ sreq'[p] # NoSave => ~SameMap(q, p)'
    BY <1>2, <1>3 DEF Separate, SameMap, Row
  <2>2. ASSUME NEW q \in MapRequests, SaveAt(q, "write")'
        PROVE  Named(Row(q).user, Row(q).creater, Whole)' \notin saved'
    <3>1. q # r /\ sreq'[q] = sreq[q] /\ SaveAt(q, "write")
      BY <1>3, <2>2 DEF SaveAt
    <3>2. Named(Row(q).user, Row(q).creater, Whole) \notin saved /\ ~SameMap(q, r)
      BY <3>1, <1>2 DEF Separate, SaveAt, NoSave
    <3>3. Named(Row(q).user, Row(q).creater, Whole) # kept
      BY <3>2 DEF SameMap, Named
    <3> QED
      BY <3>1, <3>2, <3>3, <1>1 DEF Named, Row
  <2>3. ASSUME NEW m \in saved', NEW n \in saved',
               m.user = n.user, m.creater = n.creater, m.part = Whole
        PROVE  n.part = Whole
    <3>1. CASE m = kept
      BY <3>1, <2>3, <1>1
    <3>2. CASE n = kept
      <4>1. SUFFICES ASSUME m \in saved \ gone, kept.part # Whole
                     PROVE  FALSE
        BY <3>1, <3>2, <2>3, <1>1
      <4>2. m = Named(kept.user, kept.creater, Whole)
        BY <4>1, <3>2, <2>3, <1>4 DEF Named, SavedRow
      <4> QED
        BY <4>1, <4>2, <1>1 DEF Separate
    <3>3. CASE m \in saved /\ n \in saved
      BY <3>3, <2>3 DEF Separate
    <3> QED
      BY <3>1, <3>2, <3>3, <1>1
  <2> QED
    BY <1>1, <2>1, <2>2, <2>3 DEF Separate
<1> QED
  BY <1>13, <1>14, <1>15, <1>16, <1>17
(* The statements of deleteOne: nothing they do lets two requests overlap, or *)
(* puts a part beside the whole map.                                          *)
LEMMA LeavingSeparate ==
  ASSUME SavesInv, NEW r \in MapRequests, saved' \subseteq saved,
         sreq[r] # NoSave, ~SaveAt(r, "write")',
         sreq'[r] # NoSave => sreq'[r].row = sreq[r].row,
         \A q \in MapRequests : q # r => sreq'[q] = sreq[q],
         UNCHANGED overlapped
  PROVE  Separate'
<1> SUFFICES ASSUME ~overlapped
             PROVE  Separate'
  BY DEF Separate
<1>1. \A q, p \in MapRequests :
        q # p /\ sreq'[q] # NoSave /\ sreq'[p] # NoSave => ~SameMap(q, p)'
  BY DEF SavesInv, Separate, SameMap, Row
<1>2. ASSUME NEW q \in MapRequests, SaveAt(q, "write")'
      PROVE  Named(Row(q).user, Row(q).creater, Whole)' \notin saved'
  <2>1. q # r /\ sreq'[q] = sreq[q] /\ SaveAt(q, "write")
    BY <1>2 DEF SaveAt
  <2>2. Named(Row(q).user, Row(q).creater, Whole) \notin saved
    BY <2>1 DEF SavesInv, Separate
  <2> QED
    BY <2>1, <2>2 DEF Named, Row
<1>3. \A m, n \in saved' :
        m.user = n.user /\ m.creater = n.creater /\ m.part = Whole => n.part = Whole
  BY DEF SavesInv, Separate
<1> QED
  BY <1>1, <1>2, <1>3 DEF Separate

(* A deleted row is counted down, or owed by its request. *)
LEMMA DeleteKeeps ==
  ASSUME SavesInv, NEW r \in MapRequests, DeleteSaved(r)
  PROVE  SavesInv'
<1> USE DEF SavesInv
<1> DEFINE kept == Row(r)
<1>1. /\ SaveAt(r, "delete") /\ saved' = saved \ {kept}
      /\ SaveGoto(r, IF kept \in saved THEN "decrement" ELSE "idle")
      /\ UNCHANGED <<saveMaps, follows, told, sbegun, uncounted, overlapped>>
  BY DEF DeleteSaved
<1>2. /\ kept \in SavedRow /\ sreq[r] # NoSave /\ sreq[r].at = "delete"
      /\ kept.user \in Savers
  BY <1>1, DoingFacts DEF SaveAt, SavedRow
<1>3. CASE kept \notin saved
  <2>1. /\ sreq' \in [MapRequests -> Doing]
        /\ sreq'[r].at = "idle" /\ sreq'[r] = NoSave
        /\ \A q \in MapRequests : q # r => sreq'[q] = sreq[q]
    BY <1>1, <1>2, <1>3, GoingOn DEF SaveSteps
  <2>2. saved' = saved
    BY <1>1, <1>3
  <2>3. SavesTyped'
    BY <1>1, <2>1, <2>2 DEF SavesTyped
  <2>4. \A u \in Savers : Pending(u)' = Pending(u)
    BY <1>2, <2>1 DEF Pending, SaveAt, Row
  <2>5. Separate'
    BY <1>1, <1>2, <2>1, LeavingSeparate DEF SaveAt
  <2> QED
    BY <1>1, <2>2, <2>3, <2>4, <2>5, QuietStep
<1>4. CASE kept \in saved
  <2>1. /\ sreq' \in [MapRequests -> Doing]
        /\ sreq'[r].at = "decrement" /\ sreq'[r].row = kept
        /\ \A q \in MapRequests : q # r => sreq'[q] = sreq[q]
    BY <1>1, <1>2, <1>4, GoingOn DEF SaveSteps, Row
  <2>2. SavesTyped'
    BY <1>1, <2>1 DEF SavesTyped
  <2>3. Separate'
    BY <1>1, <1>2, <2>1, LeavingSeparate DEF SaveAt, Row
  <2>4. Linked'
    BY <1>1 DEF Linked
  <2>5. Pending(kept.user)' = Pending(kept.user) \cup {r} /\ r \notin Pending(kept.user)
    <3>1. { q \in MapRequests : sreq'[q].at = "decrement" /\ sreq'[q].row.user = kept.user }
            = Pending(kept.user) \cup {r}
      BY <1>2, <2>1 DEF Pending, SaveAt, Row
    <3>2. Pending(kept.user)'
            = { q \in MapRequests : sreq'[q].at = "decrement" /\ sreq'[q].row.user = kept'.user }
      BY DEF Pending, SaveAt, Row
    <3>3. kept' = kept
      BY <2>1 DEF Row
    <3> QED
      BY <1>2, <3>1, <3>2, <3>3 DEF Pending, SaveAt
  <2>6. ASSUME NEW u \in Savers
        PROVE  LET now  == { q \in MapRequests : sreq'[q].at = "decrement" /\ sreq'[q].row.user = u }
                   list == { m \in saved' : m.user = u } IN
               /\ IsFiniteSet(now)
               /\ saveMaps[u] = Cardinality(list) + uncounted[u] + Cardinality(now)
    <3> DEFINE now  == { q \in MapRequests : sreq'[q].at = "decrement" /\ sreq'[q].row.user = u }
               list == { m \in saved' : m.user = u }
    <3>1. /\ IsFiniteSet(Pending(u)) /\ Cardinality(Pending(u)) \in Nat
          /\ IsFiniteSet(SavedBy(u)) /\ Cardinality(SavedBy(u)) \in Nat
          /\ uncounted[u] \in Nat
      BY FS_Subset, FS_CardinalityType DEF Finite, SavedBy, SavesTyped
    <3>2. saveMaps[u] = Cardinality(SavedBy(u)) + uncounted[u] + Cardinality(Pending(u))
      BY DEF MapSavesCounted, SavedList, Pending
    <3>3. CASE u # kept.user
      <4>1. now = Pending(u)
        BY <1>2, <2>1, <3>3 DEF Pending, SaveAt, Row
      <4>2. list = SavedBy(u)
        BY <1>1, <3>3 DEF SavedBy
      <4> QED
        BY <3>1, <3>2, <4>1, <4>2
    <3>4. CASE u = kept.user
      <4>1. now = Pending(u) \cup {r} /\ r \notin Pending(u)
        BY <1>2, <2>1, <3>4 DEF Pending, SaveAt, Row
      <4>2. list = SavedBy(u) \ {kept} /\ kept \in SavedBy(u)
        BY <1>1, <1>4, <3>4 DEF SavedBy
      <4>3. IsFiniteSet(now) /\ Cardinality(now) = Cardinality(Pending(u)) + 1
        BY <3>1, <4>1, FS_AddElement
      <4>4. Cardinality(list) = Cardinality(SavedBy(u)) - 1
        BY <3>1, <4>2, FS_RemoveElement
      <4> HIDE DEF now, list
      <4>5. saveMaps[u] = Cardinality(list) + uncounted[u] + Cardinality(now)
        BY <3>1, <3>2, <4>3, <4>4
      <4> QED
        BY <4>3, <4>5 DEF now, list
    <3> QED
      BY <3>3, <3>4
  <2>7. Finite' /\ MapSavesCounted'
    <3>1. IsFiniteSet(saved')
      BY <1>1, FS_Subset DEF Finite
    <3> QED
      BY <1>1, <2>6, <3>1 DEF Finite, MapSavesCounted, SavedList, SavedBy, Pending, SaveAt, Row
  <2> QED
    BY <2>2, <2>3, <2>4, <2>7
<1> QED
  BY <1>3, <1>4

(* The second statement of deleteOne, and its failure *)
LEMMA DecrementKeeps ==
  ASSUME SavesInv, NEW r \in MapRequests, DecrementMaps(r) \/ DecrementFails(r)
  PROVE  SavesInv'
<1> USE DEF SavesInv
<1> DEFINE kept == Row(r)
<1>1. /\ SaveAt(r, "decrement") /\ SaveGoto(r, "idle")
      /\ UNCHANGED <<saved, follows, told, overlapped>>
  BY DEF DecrementMaps, DecrementFails
<1>2. /\ kept \in SavedRow /\ sreq[r] # NoSave /\ sreq[r].at = "decrement"
      /\ kept.user \in Savers
  BY <1>1, DoingFacts DEF SaveAt, SavedRow
<1>3. /\ sreq' \in [MapRequests -> Doing]
      /\ sreq'[r].at = "idle" /\ sreq'[r] = NoSave
      /\ \A q \in MapRequests : q # r => sreq'[q] = sreq[q]
  BY <1>1, <1>2, GoingOn DEF SaveSteps
<1>4. Separate' /\ Linked'
  BY <1>1, <1>2, <1>3, LeavingSeparate DEF SaveAt, Linked
<1>5. ASSUME NEW u \in Savers
      PROVE  /\ IsFiniteSet(Pending(u)) /\ Cardinality(Pending(u)) \in Nat
             /\ Cardinality(SavedBy(u)) \in Nat
             /\ saveMaps[u] \in Nat /\ uncounted[u] \in Nat
             /\ saveMaps[u] = Cardinality(SavedBy(u)) + uncounted[u] + Cardinality(Pending(u))
  <2>1. IsFiniteSet(SavedBy(u))
    BY FS_Subset DEF Finite, SavedBy
  <2> QED
    BY <2>1, FS_CardinalityType DEF Finite, SavesTyped, MapSavesCounted, SavedList, Pending
<1>6. ASSUME NEW u \in Savers
      PROVE  LET now == { q \in MapRequests : sreq'[q].at = "decrement" /\ sreq'[q].row.user = u } IN
             /\ IsFiniteSet(now)
             /\ u # kept.user => Cardinality(now) = Cardinality(Pending(u))
             /\ u = kept.user => /\ Cardinality(now) = Cardinality(Pending(u)) - 1
                                /\ Cardinality(Pending(u)) > 0
  <2> DEFINE now == { q \in MapRequests : sreq'[q].at = "decrement" /\ sreq'[q].row.user = u }
  <2>1. now = Pending(u) \ {r}
    BY <1>3 DEF Pending, SaveAt, Row
  <2>2. u # kept.user => r \notin Pending(u)
    BY DEF Pending
  <2>3. u = kept.user => r \in Pending(u)
    BY <1>1 DEF Pending
  <2>4. CASE u # kept.user
    BY <2>1, <2>2, <2>4, <1>5
  <2>5. CASE u = kept.user
    <3>1. IsFiniteSet(Pending(u) \ {r}) /\ Cardinality(Pending(u) \ {r}) = Cardinality(Pending(u)) - 1
          /\ Cardinality(Pending(u) \ {r}) \in Nat
      BY <2>3, <2>5, <1>5, FS_RemoveElement, FS_CardinalityType
    <3>2. Cardinality(Pending(u)) > 0
      BY <3>1, <1>5
    <3> QED
      BY <2>1, <2>5, <3>1, <3>2
  <2> QED
    BY <2>4, <2>5
<1>7. ASSUME NEW u \in Savers
      PROVE  /\ saveMaps'[u] \in Nat /\ uncounted'[u] \in Nat
             /\ saveMaps'[u] - uncounted'[u] =
                  IF u = kept.user THEN saveMaps[u] - uncounted[u] - 1
                                  ELSE saveMaps[u] - uncounted[u]
  <2>1. CASE DecrementMaps(r)
    <3>1. saveMaps' = [saveMaps EXCEPT ![kept.user] = @ - 1] /\ uncounted' = uncounted
      BY <2>1 DEF DecrementMaps
    <3>2. saveMaps'[u] = IF u = kept.user THEN saveMaps[u] - 1 ELSE saveMaps[u]
      BY <1>2, <3>1 DEF SavesTyped
    <3>3. u = kept.user => saveMaps[u] > 0 /\ saveMaps[u] \in Nat /\ uncounted[u] \in Nat
      <4>1. u = kept.user => Cardinality(Pending(u)) > 0
        BY <1>6
      <4> QED
        BY <4>1, <1>5
    <3>4. saveMaps[u] \in Nat /\ uncounted[u] \in Nat
      BY <1>5
    <3> QED
      BY <3>1, <3>2, <3>3, <3>4
  <2>2. CASE DecrementFails(r)
    <3>1. uncounted' = [uncounted EXCEPT ![kept.user] = @ + 1] /\ saveMaps' = saveMaps
      BY <2>2 DEF DecrementFails
    <3>2. uncounted'[u] = IF u = kept.user THEN uncounted[u] + 1 ELSE uncounted[u]
      BY <1>2, <3>1 DEF SavesTyped
    <3> QED
      BY <3>1, <3>2, <1>5
  <2> QED
    BY <2>1, <2>2
<1>8. SavesTyped'
  <2>1. DOMAIN saveMaps' = Savers /\ DOMAIN uncounted' = Savers
        /\ saveMaps' = [u \in Savers |-> saveMaps'[u]] /\ uncounted' = [u \in Savers |-> uncounted'[u]]
    BY <1>2 DEF DecrementMaps, DecrementFails, SavesTyped
  <2>2. saveMaps' \in [Savers -> Nat] /\ uncounted' \in [Savers -> Nat]
    BY <2>1, <1>7
  <2> QED
    BY <2>2, <1>1, <1>3 DEF SavesTyped
<1>9. \A u \in Savers :
        LET now == { q \in MapRequests : sreq'[q].at = "decrement" /\ sreq'[q].row.user = u } IN
        saveMaps'[u] = Cardinality(SavedBy(u)) + uncounted'[u] + Cardinality(now)
  <2> SUFFICES ASSUME NEW u \in Savers
               PROVE  LET now == { q \in MapRequests : sreq'[q].at = "decrement" /\ sreq'[q].row.user = u } IN
                      saveMaps'[u] = Cardinality(SavedBy(u)) + uncounted'[u] + Cardinality(now)
    OBVIOUS
  <2> DEFINE now == { q \in MapRequests : sreq'[q].at = "decrement" /\ sreq'[q].row.user = u }
  <2>1. /\ u # kept.user => Cardinality(now) = Cardinality(Pending(u))
        /\ u = kept.user => Cardinality(now) = Cardinality(Pending(u)) - 1
    BY <1>6
  <2> HIDE DEF now
  <2>2. saveMaps'[u] = Cardinality(SavedBy(u)) + uncounted'[u] + Cardinality(now)
    BY <2>1, <1>5, <1>7
  <2> QED
    BY <2>2 DEF now
<1>10. Finite' /\ MapSavesCounted'
  BY <1>1, <1>6, <1>9 DEF Finite, MapSavesCounted, SavedList, SavedBy, Pending, SaveAt, Row
<1> QED
  BY <1>4, <1>8, <1>10

--------------------------------------------------------------------------------
(* The invariant, and what it shows *)

(* Every step preserves the invariant. *)
LEMMA NextSaves ==
  ASSUME SavesInv, [SavesNext]_saveVars
  PROVE  SavesInv'
<1>1. CASE SavesNext
  <2>1. PICK r \in MapRequests :
          \/ \E kept \in SavedRow, at \in {"find", "delete"} : BeginSave(r, kept, at)
          \/ FindWhole(r) \/ WriteSave(r) \/ WriteFails(r) \/ TellCreater(r) \/ TellFails(r)
          \/ DeleteSaved(r) \/ DecrementMaps(r) \/ DecrementFails(r)
    BY <1>1 DEF SavesNext
  <2> QED
    BY <2>1, BeginKeeps, GoingKeeps, WriteKeeps, DeleteKeeps, DecrementKeeps
<1>2. CASE UNCHANGED saveVars
  BY <1>2 DEF saveVars, SavesInv, SavesTyped, Finite, MapSavesCounted, Linked, Separate,
              SavedList, SavedBy, Pending, SaveAt, Row, SameMap, Named
<1> QED
  BY <1>1, <1>2

(* The invariant says what the property says. *)
LEMMA AgreeFacts == SavesInv => SavedMapsAgree
<1> SUFFICES ASSUME SavesInv
             PROVE  SavedMapsAgree
  OBVIOUS
<1>1. MapSavesCounted
  BY DEF SavesInv
<1>2. WholeMapAlone
  <2> SUFFICES ASSUME ~overlapped, NEW u \in Savers, NEW c \in Creaters, Whole \in PartsOf(u, c)
               PROVE  PartsOf(u, c) = {Whole}
    BY DEF WholeMapAlone
  <2>1. PICK m \in saved : m.user = u /\ m.creater = c /\ m.part = Whole
    BY DEF PartsOf
  <2>2. \A n \in saved : n.user = u /\ n.creater = c => n.part = Whole
    BY <2>1 DEF SavesInv, Separate
  <2> QED
    BY <2>2 DEF PartsOf
<1>3. SavedFollowed
  <2> SUFFICES ASSUME NEW u \in Savers, NEW c \in Creaters, NEW s \in Parts, IsSaveMap(u, c, s)
               PROVE  <<u, c>> \in follows /\ \E m \in SavedList(u) : m.creater = c
    BY DEF SavedFollowed
  <2>1. PICK m \in saved : m.user = u /\ m.creater = c
    BY DEF IsSaveMap, PartsOf
  <2> QED
    BY <2>1 DEF SavesInv, Linked, SavedList, SavedBy
<1> QED
  BY <1>1, <1>2, <1>3 DEF SavedMapsAgree

(* However savings and deletions of maps overlap, and wherever a deletion     *)
(* stops: saveMaps (createOne, deleteOne) is the number of saved maps but for *)
(* the deletions between their statements, the whole map is alone unless two  *)
(* requests for it have overlapped, and whoever has saved a map follows its   *)
(* creater.                                                                   *)
THEOREM SavedMapsOK == SavesSpec => []SavedMapsAgree
<1>1. SavesInit => SavesInv
  BY InitSaves
<1>2. SavesInv /\ [SavesNext]_saveVars => SavesInv'
  BY NextSaves
<1>3. SavesInv => SavedMapsAgree
  BY AgreeFacts
<1> QED
  BY <1>1, <1>2, <1>3, PTL DEF SavesSpec

--------------------------------------------------------------------------------
(* NoteComments *)

KnownIn(rows, c) == c \in Comments /\ rows[c].status # "free"
LiveIn(rows, c)  == c # Nobody /\ rows[c].status = "live"

(* What a row, or a request, says it is about is a comment that there is or was. *)
Aimed(q, rows) ==
  /\ q.user \in Users
  /\ q.type = "QUESTION" => q.father = Nobody /\ q.up = Nobody
  /\ q.type # "QUESTION" => KnownIn(rows, q.father) /\ rows[q.father].type = "QUESTION"
  /\ q.type = "ANSWER" => q.up = Nobody
  /\ q.type = "REPLY" => /\ KnownIn(rows, q.up) /\ rows[q.up].type # "QUESTION"
                         /\ rows[q.up].father = q.father

RowsAimed ==
  /\ \A c \in Comments : KnownIn(row, c) => Aimed(row[c], row)
  /\ \E k \in 0..MaxComments : \A c \in Comments : KnownIn(row, c) <=> c <= k

SameAim(q, x) == q.type = x.type /\ q.father = x.father /\ q.up = x.up

RequestRight(q, rows) ==
  /\ q.at = "idle" => q = NoRequest
  /\ q.at \in {"insert", "delete"} => q.n = 0
  /\ q.at \in {"insert", "message"} => Aimed(q, rows)
  /\ q.at = "delete" => KnownIn(rows, q.comment)
  /\ q.at = "message" =>
       /\ KnownIn(rows, q.comment) /\ SameAim(q, rows[q.comment])
       /\ IF q.type = "QUESTION" THEN q.to = Author
          ELSE LiveIn(rows, Target(q)) => q.to = rows[Target(q)].user

RequestsRight == \A r \in CommentRequests : RequestRight(creq[r], row)

MailsKnown == \A m \in mails : KnownIn(row, m.comment)

CommentsInv ==
  /\ CommentsTypeOK /\ RowsAimed /\ RequestsRight
  /\ AnswersCounted /\ MailsKnown /\ MailsAddressed

(* What the requests still have to add to the statistic *)
Owed == [r \in CommentRequests |-> creq[r].n]

(* Until it is blurred, the statistic and what is owed or missed make up the  *)
(* comments that there are; whoever loads the hash has read what it says.     *)
StatRight ==
  ~blurred =>
    /\ StatShown + Sum(Owed, CommentRequests) + missed = Cardinality(LiveRows)
    /\ ~StatOverlap
    /\ \A r \in CommentRequests :
         /\ CommentAt(r, "load") => creq[r].got = StatShown
         /\ CommentAt(r, "add") => nstat.cached # Nobody

--------------------------------------------------------------------------------

(* What is said of a comment stays, and a comment that is deleted stays so. *)
Settled(rows, next) ==
  /\ rows \in [Comments -> CommentRow] /\ next \in [Comments -> CommentRow]
  /\ \A c \in Comments : KnownIn(rows, c) =>
       /\ KnownIn(next, c) /\ SameAim(next[c], rows[c]) /\ next[c].user = rows[c].user
       /\ LiveIn(next, c) => LiveIn(rows, c)

(* What is left of a finite set without some of its elements *)
LEMMA CardinalityOfRest ==
  ASSUME NEW S, NEW T, IsFiniteSet(S), T \subseteq S
  PROVE  Cardinality(S \ T) = Cardinality(S) - Cardinality(T)
<1>1. S \cap T = T
  OBVIOUS
<1> QED
  BY <1>1, FS_Difference

(* What is aimed at comments that exist stays so while rows settle. *)
LEMMA AimStays ==
  ASSUME NEW rows, NEW next, Settled(rows, next), NEW q, Aimed(q, rows)
  PROVE  Aimed(q, next)
BY DEF Settled, Aimed, KnownIn, SameAim

(* So does what a request has found. *)
LEMMA RequestStays ==
  ASSUME NEW rows, NEW next, Settled(rows, next), NEW q \in Request, RequestRight(q, rows)
  PROVE  RequestRight(q, next)
<1>1. q.at \in {"insert", "message"} => Aimed(q, next)
  BY AimStays DEF RequestRight
<1>2. /\ q.at = "idle" => q = NoRequest
      /\ q.at \in {"insert", "delete"} => q.n = 0
      /\ q.at = "delete" => KnownIn(next, q.comment)
      /\ q.at = "message" => KnownIn(next, q.comment) /\ SameAim(q, next[q.comment])
  BY DEF RequestRight, Settled, KnownIn, SameAim
<1>3. ASSUME q.at = "message", q.type # "QUESTION", LiveIn(next, Target(q))
      PROVE  q.to = next[Target(q)].user
  <2>1. q.type \in {"ANSWER", "REPLY"}
    BY <1>3 DEF Request, Types
  <2>2. KnownIn(rows, Target(q))
    BY <1>3, <2>1 DEF RequestRight, Aimed, Target
  <2>3. /\ next[Target(q)].user = rows[Target(q)].user
        /\ LiveIn(rows, Target(q))
    BY <1>3, <2>2 DEF Settled, KnownIn
  <2> QED
    BY <1>3, <2>3 DEF RequestRight
<1>4. q.at = "message" /\ q.type = "QUESTION" => q.to = Author
  BY DEF RequestRight
<1> QED
  BY <1>1, <1>2, <1>3, <1>4 DEF RequestRight

(* A step of r that settles the rows and leaves r right leaves all requests right. *)
LEMMA RequestsStay ==
  ASSUME CommentsTypeOK, RequestsRight, Settled(row, row'),
         NEW r \in CommentRequests, RequestRight(creq'[r], row'),
         \A s \in CommentRequests : s # r => creq'[s] = creq[s]
  PROVE  RequestsRight'
<1> SUFFICES ASSUME NEW s \in CommentRequests
             PROVE  RequestRight(creq'[s], row')
  BY DEF RequestsRight
<1>1. CASE s # r
  <2>1. creq'[s] = creq[s] /\ creq[s] \in Request /\ RequestRight(creq[s], row)
    BY <1>1 DEF CommentsTypeOK, RequestsRight
  <2> QED
    BY <2>1, RequestStays
<1> QED
  BY <1>1

(* And the messages that were sent stay addressed. *)
LEMMA RowsStay ==
  ASSUME CommentsTypeOK, MailsKnown, MailsAddressed, RowsAimed, Settled(row, row')
  PROVE  \A m \in mails :
           /\ KnownIn(row', m.comment)
           /\ LET c == row'[m.comment] IN
              m.to = IF c.type = "QUESTION" THEN Author ELSE row'[Target(c)].user
<1> SUFFICES ASSUME NEW m \in mails
             PROVE  /\ KnownIn(row', m.comment)
                    /\ LET c == row'[m.comment] IN
                       m.to = IF c.type = "QUESTION" THEN Author ELSE row'[Target(c)].user
  OBVIOUS
<1> DEFINE c == row[m.comment]
<1>1. KnownIn(row, m.comment) /\ Aimed(c, row) /\ c \in CommentRow
  BY DEF MailsKnown, RowsAimed, Settled, KnownIn
<1>2. KnownIn(row', m.comment) /\ SameAim(row'[m.comment], c)
  BY <1>1 DEF Settled, KnownIn
<1>3. c.type # "QUESTION" => KnownIn(row, Target(c))
  BY <1>1 DEF Aimed, Target, CommentRow, Types
<1>4. c.type # "QUESTION" => row'[Target(c)].user = row[Target(c)].user
  BY <1>3 DEF Settled, KnownIn
<1>5. m.to = IF c.type = "QUESTION" THEN Author ELSE row[Target(c)].user
  BY DEF MailsAddressed
<1>6. Target(row'[m.comment]) = Target(c) /\ row'[m.comment].type = c.type
  BY <1>2 DEF Target, SameAim
<1> QED
  BY <1>2, <1>4, <1>5, <1>6

(* r alone has moved, and is right. *)
Moves(r) ==
  /\ creq' \in [CommentRequests -> Request]
  /\ \A s \in CommentRequests : s # r => creq'[s] = creq[s]
  /\ RequestRight(creq'[r], row')

(* What is sent is about a comment, and to whom it should be. *)
MailsRight ==
  /\ mails' \subseteq [to : Users, comment : Comments]
  /\ \A m \in mails' \ mails :
       /\ KnownIn(row', m.comment)
       /\ LET c == row'[m.comment] IN
          m.to = IF c.type = "QUESTION" THEN Author ELSE row'[Target(c)].user

(* A request that has ended is a request. *)
LEMMA NoRequestTyped == NoRequest \in Request
BY CommentConstants DEF NoRequest, Request, Types

(* There are no comments at the start. *)
LEMMA InitComments == CommentsInit => CommentsInv
<1> SUFFICES ASSUME CommentsInit
             PROVE  CommentsInv
  OBVIOUS
<1>1. \A c \in Comments : ~KnownIn(row, c) /\ row[c].status = "free"
  BY DEF CommentsInit, BlankRow, KnownIn
<1>2. \A r \in CommentRequests : creq[r] = NoRequest /\ creq[r].at = "idle"
  BY DEF CommentsInit, NoRequest
<1>3. CommentsTypeOK
  <2>1. BlankRow \in CommentRow
    BY DEF BlankRow, CommentRow, Types
  <2>2. [saved |-> 0, cached |-> Nobody, syncing |-> FALSE] \in StatRow
    BY DEF StatRow
  <2>3. row \in [Comments -> CommentRow] /\ creq \in [CommentRequests -> Request]
    BY <2>1, NoRequestTyped DEF CommentsInit
  <2>4. nstat \in StatRow /\ mails = {} /\ missed = 0 /\ blurred = FALSE
    BY <2>2 DEF CommentsInit
  <2>5. mails \subseteq [to : Users, comment : Comments] /\ missed \in Int
    BY <2>4
  <2>6. blurred \in BOOLEAN
    BY <2>4
  <2> QED
    BY <2>3, <2>4, <2>5, <2>6 DEF CommentsTypeOK
<1>4. RowsAimed
  <2>1. 0 \in 0..MaxComments /\ \A c \in Comments : ~(c <= 0)
    BY CommentConstants DEF Comments
  <2> QED
    BY <1>1, <2>1 DEF RowsAimed
<1>5. RequestsRight
  BY <1>2 DEF RequestsRight, RequestRight, NoRequest
<1>6. LiveRows = {}
  BY <1>1 DEF LiveRows, Live
<1>7. AnswersCounted /\ MailsKnown /\ MailsAddressed
  BY <1>6 DEF AnswersCounted, MailsKnown, MailsAddressed, CommentsInit
<1> QED
  BY <1>3, <1>4, <1>5, <1>7 DEF CommentsInv

(* A step of r that leaves the rows alone *)
LEMMA QuietComments ==
  ASSUME CommentsInv, NEW r \in CommentRequests, Moves(r), MailsRight,
         row' = row, nstat' \in StatRow, missed' \in Int, blurred' \in BOOLEAN
  PROVE  CommentsInv'
<1>1. Settled(row, row')
  BY DEF CommentsInv, CommentsTypeOK, Settled, SameAim
<1>2. CommentsTypeOK'
  BY DEF CommentsInv, CommentsTypeOK, Moves, MailsRight
<1>3. RequestsRight'
  BY <1>1, RequestsStay DEF CommentsInv, Moves
<1>4. RowsAimed'
  BY DEF CommentsInv, RowsAimed
<1>7. AnswersCounted'
  BY DEF CommentsInv, AnswersCounted, LiveRows, ThreadOf, Live
<1>9. MailsKnown' /\ MailsAddressed'
  <2>1. \A m \in mails' :
           /\ KnownIn(row', m.comment)
           /\ LET c == row'[m.comment] IN
              m.to = IF c.type = "QUESTION" THEN Author ELSE row'[Target(c)].user
    BY <1>1, RowsStay DEF CommentsInv, MailsRight
  <2> QED
    BY <2>1 DEF MailsKnown, MailsAddressed, Target
<1> QED
  BY <1>2, <1>3, <1>4, <1>7, <1>9 DEF CommentsInv

(* A request that begins to comment is aimed at what it has read. *)
LEMMA BeginCreateRight ==
  ASSUME CommentsInv, NEW r \in CommentRequests, NEW u \in Writers, NEW t \in Types,
         NEW f \in Comments \cup {Nobody}, NEW up \in Comments \cup {Nobody},
         BeginCreate(r, u, t, f, up), blurred' \in BOOLEAN
  PROVE  CommentsInv'
<1> DEFINE q == [NoRequest EXCEPT !.at = "insert", !.type = t, !.user = u, !.father = f, !.up = up]
<1>1. creq \in [CommentRequests -> Request] /\ row \in [Comments -> CommentRow]
  BY DEF CommentsInv, CommentsTypeOK
<1>2. q \in Request /\ u \in Users /\ q.at = "insert" /\ q.n = 0
  BY CommentConstants, NoRequestTyped DEF Request, NoRequest
<1>3. creq' = [creq EXCEPT ![r] = q] /\ creq'[r] = q /\ creq[r].at = "idle"
  BY <1>1 DEF BeginCreate, NoRequest
<1>4. Aimed(q, row)
  <2>1. /\ q.user = u /\ q.type = t /\ q.father = f /\ q.up = up
        /\ t \in {"QUESTION", "ANSWER", "REPLY"} /\ About(t, f, up)
    BY DEF NoRequest, BeginCreate, Types
  <2>2. CASE t = "QUESTION"
    BY <1>2, <2>1, <2>2 DEF About, Aimed
  <2>3. CASE t = "ANSWER"
    BY <1>2, <2>1, <2>3 DEF About, Aimed, Existing, KnownIn
  <2>4. CASE t = "REPLY"
    <3>1. up \in Existing({"ANSWER", "REPLY"}) /\ f = row[up].father
      BY <2>1, <2>4 DEF About
    <3>2. KnownIn(row, up) /\ row[up].type \in {"ANSWER", "REPLY"} /\ Aimed(row[up], row)
      BY <3>1 DEF Existing, KnownIn, CommentsInv, RowsAimed
    <3> HIDE DEF q
    <3> QED
      BY <1>2, <2>1, <2>4, <3>1, <3>2 DEF Aimed
  <2> QED
    BY <2>1, <2>2, <2>3, <2>4
<1>5. UNCHANGED <<row, nstat, mails, missed>>
  BY DEF BeginCreate
<1>6. RequestRight(q, row')
  BY <1>2, <1>4, <1>5 DEF RequestRight
<1>7. Moves(r)
  BY <1>1, <1>2, <1>3, <1>6 DEF Moves
<1>8. MailsRight
  BY <1>5 DEF MailsRight, CommentsInv, CommentsTypeOK
<1> QED
  BY <1>5, <1>7, <1>8, QuietComments DEF CommentsInv, CommentsTypeOK

(* A request that begins to delete has read a comment. *)
LEMMA BeginDeleteRight ==
  ASSUME CommentsInv, NEW r \in CommentRequests, NEW c \in Comments, BeginDelete(r, c),
         blurred' \in BOOLEAN
  PROVE  CommentsInv'
<1> DEFINE q == [NoRequest EXCEPT !.at = "delete", !.comment = c]
<1>1. creq \in [CommentRequests -> Request] /\ row \in [Comments -> CommentRow]
  BY DEF CommentsInv, CommentsTypeOK
<1>2. q \in Request /\ q.at = "delete" /\ q.n = 0
  BY NoRequestTyped DEF Request, NoRequest
<1>3. creq' = [creq EXCEPT ![r] = q] /\ creq'[r] = q /\ creq[r].at = "idle"
  BY <1>1 DEF BeginDelete, NoRequest
<1>4. UNCHANGED <<row, nstat, mails, missed>>
  BY DEF BeginDelete
<1>5. RequestRight(q, row')
  BY <1>2, <1>4 DEF BeginDelete, RequestRight, NoRequest, KnownIn, Live
<1>6. Moves(r)
  BY <1>1, <1>2, <1>3, <1>5 DEF Moves
<1>7. MailsRight
  BY <1>4 DEF MailsRight, CommentsInv, CommentsTypeOK
<1> QED
  BY <1>4, <1>6, <1>7, QuietComments DEF CommentsInv, CommentsTypeOK

(* A message goes to the author, or to the user of the comment answered. *)
LEMMA MessageRight ==
  ASSUME CommentsInv, NEW r \in CommentRequests, Message(r), blurred' \in BOOLEAN
  PROVE  CommentsInv'
<1> DEFINE q == creq[r]
<1>1. creq \in [CommentRequests -> Request] /\ q \in Request /\ RequestRight(q, row)
  BY DEF CommentsInv, CommentsTypeOK, RequestsRight
<1>2. /\ q.at = "message" /\ UNCHANGED <<row, nstat, missed>>
      /\ creq' = [creq EXCEPT ![r].at = "exists"]
      /\ q.to # Public => Formatted(q)
      /\ mails' = IF q.to = Public THEN mails ELSE mails \cup {[to |-> q.to, comment |-> q.comment]}
  BY DEF Message, CommentAt, CommentGoto
<1>3. /\ creq'[r] = [q EXCEPT !.at = "exists"] /\ creq' \in [CommentRequests -> Request]
      /\ creq'[r].at = "exists"
  BY <1>1, <1>2 DEF Request
<1>4. RequestRight(creq'[r], row')
  BY <1>3 DEF RequestRight
<1>5. Moves(r)
  BY <1>2, <1>3, <1>4 DEF Moves
<1>6. ASSUME q.to # Public
      PROVE  /\ q.to \in Users /\ KnownIn(row, q.comment)
             /\ LET c == row[q.comment] IN
                q.to = IF c.type = "QUESTION" THEN Author ELSE row[Target(c)].user
  <2>1. KnownIn(row, q.comment) /\ SameAim(q, row[q.comment]) /\ Aimed(q, row)
    BY <1>1, <1>2 DEF RequestRight
  <2>2. Target(row[q.comment]) = Target(q) /\ row[q.comment].type = q.type
    BY <2>1 DEF Target, SameAim
  <2>3. CASE q.type = "QUESTION"
    BY <1>1, <1>2, <1>6, <2>1, <2>2, <2>3, CommentConstants DEF RequestRight
  <2>4. CASE q.type # "QUESTION"
    <3>1. Live(Target(q)) /\ LiveIn(row, Target(q))
      BY <1>2, <1>6, <2>4 DEF Formatted, Live, LiveIn
    <3>2. q.to = row[Target(q)].user
      BY <1>1, <1>2, <2>4, <3>1 DEF RequestRight
    <3>3. KnownIn(row, Target(q))
      BY <1>1, <2>1, <2>4 DEF Aimed, Target, Request, Types
    <3>4. row[Target(q)].user \in Users
      BY <3>3 DEF CommentsInv, RowsAimed, Aimed, KnownIn
    <3> QED
      BY <2>1, <2>2, <2>4, <3>2, <3>4
  <2> QED
    BY <2>3, <2>4
<1>7. MailsRight
  <2>1. q.comment \in Comments
    BY <1>1, <1>2 DEF RequestRight, KnownIn
  <2>2. q.to # Public => q.to \in Users
    BY <1>6
  <2>3. mails' \subseteq [to : Users, comment : Comments]
    BY <1>2, <2>1, <2>2 DEF CommentsInv, CommentsTypeOK
  <2>4. \A m \in mails' \ mails :
          q.to # Public /\ m.to = q.to /\ m.comment = q.comment
    BY <1>2
  <2> QED
    BY <1>2, <1>6, <2>3, <2>4 DEF MailsRight
<1> QED
  BY <1>2, <1>5, <1>7, QuietComments DEF CommentsInv, CommentsTypeOK

(* A request that ends, or that goes on to count, leaves the rows right. *)
LEMMA GoesOnRight ==
  ASSUME CommentsInv, NEW r \in CommentRequests, UNCHANGED <<row, mails>>,
         nstat' \in StatRow, missed' \in Int, blurred' \in BOOLEAN, NEW q \in Request,
         creq' = [creq EXCEPT ![r] = q], q = NoRequest \/ q.at \in {"exists", "read", "load", "add"}
  PROVE  CommentsInv'
<1>1. creq \in [CommentRequests -> Request] /\ mails \subseteq [to : Users, comment : Comments]
  BY DEF CommentsInv, CommentsTypeOK
<1>2. RequestRight(q, row')
  BY DEF RequestRight, NoRequest
<1>3. Moves(r)
  BY <1>1, <1>2 DEF Moves
<1>4. MailsRight
  BY <1>1 DEF MailsRight
<1> QED
  BY <1>3, <1>4, QuietComments

(* The steps of updateStat, and a failure anywhere, are such. *)
LEMMA CountingRight ==
  ASSUME CommentsInv, NEW r \in CommentRequests, blurred' \in BOOLEAN,
         \/ BeginOther(r) \/ FindStat(r) \/ ReadStat(r)
         \/ LoadStat(r) \/ AddStat(r) \/ CommentFails(r)
  PROVE  CommentsInv'
<1>1. /\ creq \in [CommentRequests -> Request] /\ creq[r] \in Request
      /\ nstat \in StatRow /\ missed \in Int /\ StatShown \in Int
  BY DEF CommentsInv, CommentsTypeOK, StatRow, StatShown
<1>2. CASE BeginOther(r) \/ FindStat(r) \/ ReadStat(r)
  <2>1. PICK q \in Request : creq' = [creq EXCEPT ![r] = q] /\ q.at \in {"exists", "read", "load", "add"}
    <3>1. ASSUME NEW at \in {"exists", "read", "load", "add"}
          PROVE  /\ [creq[r] EXCEPT !.at = at] \in Request
                 /\ [creq[r] EXCEPT !.at = at].at = at
      BY <1>1 DEF Request
    <3>2. CASE BeginOther(r)
      BY <1>1, <3>1, <3>2 DEF BeginOther, CommentGoto
    <3>3. CASE FindStat(r)
      <4>1. CASE nstat.cached = Nobody
        BY <1>1, <3>1, <3>3, <4>1 DEF FindStat, CommentGoto
      <4>2. CASE nstat.cached # Nobody
        BY <1>1, <3>1, <3>3, <4>2 DEF FindStat, CommentGoto
      <4> QED
        BY <4>1, <4>2
    <3>4. CASE ReadStat(r)
      <4> DEFINE q == [creq[r] EXCEPT !.at = "load", !.got = StatShown]
      <4>1. q \in Request /\ q.at = "load"
        BY <1>1 DEF Request
      <4>2. creq' = [creq EXCEPT ![r] = q]
        BY <1>1, <3>4 DEF ReadStat
      <4> HIDE DEF q
      <4> QED
        BY <4>1, <4>2
    <3> QED
      BY <1>2, <3>2, <3>3, <3>4
  <2>2. UNCHANGED <<row, nstat, mails, missed>>
    BY <1>2 DEF BeginOther, FindStat, ReadStat
  <2> QED
    BY <1>1, <2>1, <2>2, GoesOnRight
<1>3. CASE LoadStat(r)
  <2>1. /\ [creq[r] EXCEPT !.at = "add"] \in Request
        /\ creq' = [creq EXCEPT ![r] = [creq[r] EXCEPT !.at = "add"]]
        /\ nstat' \in StatRow /\ UNCHANGED <<row, mails, missed>>
    BY <1>1, <1>3 DEF LoadStat, CommentGoto, Request, StatRow
  <2>2. [creq[r] EXCEPT !.at = "add"].at = "add"
    BY <1>1 DEF Request
  <2> QED
    BY <1>1, <2>1, <2>2, GoesOnRight
<1>4. CASE AddStat(r)
  <2>1. StatAdded(creq[r].n) \in Int
    BY <1>1 DEF StatAdded, StatRow, Request
  <2>2. nstat' \in StatRow /\ UNCHANGED <<row, mails, missed>> /\ CommentEnds(r)
    BY <1>1, <1>4, <2>1 DEF AddStat, StatRow
  <2> QED
    BY <1>1, <2>2, NoRequestTyped, GoesOnRight DEF CommentEnds
<1>5. CASE CommentFails(r)
  <2>1. missed' \in Int /\ UNCHANGED <<row, nstat, mails>> /\ CommentEnds(r)
    BY <1>1, <1>5 DEF CommentFails, Request
  <2> QED
    BY <1>1, <2>1, NoRequestTyped, GoesOnRight DEF CommentEnds
<1> QED
  BY <1>2, <1>3, <1>4, <1>5

(* What is counted of comments is finite. *)
LEMMA CountsFinite ==
  ASSUME CommentsTypeOK
  PROVE  /\ \A S \in SUBSET Comments :
              IsFiniteSet(S) /\ Cardinality(S) \in Nat /\ Cardinality(S) <= MaxComments
         /\ LiveRows \subseteq Comments
         /\ Terms(Owed, CommentRequests) /\ Sum(Owed, CommentRequests) \in Int
<1>1. IsFiniteSet(Comments) /\ Cardinality(Comments) = MaxComments
  <2>1. MaxComments \in Nat
    BY CommentConstants
  <2> QED
    BY <2>1, FS_Interval DEF Comments
<1>2. Terms(Owed, CommentRequests)
  BY CommentConstants DEF Terms, Owed, CommentsTypeOK, Request
<1> QED
  BY <1>1, <1>2, FS_Subset, FS_CardinalityType, SumOfTerms DEF LiveRows

(* The comments that were created are numbered from 1. *)
LEMMA NextIsFree ==
  ASSUME CommentsInv, NextId \in Comments
  PROVE  /\ ~KnownIn(row, NextId)
         /\ \A c \in Comments : KnownIn(row, c) <=> c <= NextId - 1
<1>1. PICK k \in 0..MaxComments : \A c \in Comments : KnownIn(row, c) <=> c <= k
  BY DEF CommentsInv, RowsAimed
<1>2. { c \in Comments : row[c].status # "free" } = 1..k
  BY <1>1, CommentConstants DEF Comments, KnownIn
<1>3. Cardinality(1..k) = k
  BY <1>1, FS_Interval, CommentConstants
<1>4. NextId = k + 1
  <2>1. NextId = 1 + Cardinality(1..k)
    BY <1>2 DEF NextId
  <2> QED
    BY <1>1, <1>3, <2>1, CommentConstants
<1> QED
  BY <1>1, <1>4 DEF Comments

(* What the transaction of createOne does to the rows, with q and c for the  *)
(* request and the number of its comment                                     *)
Inserts(q, c) ==
  /\ row \in [Comments -> CommentRow] /\ row' \in [Comments -> CommentRow]
  /\ c \in Comments /\ ~KnownIn(row, c)
  /\ \A d \in Comments : KnownIn(row, d) <=> d <= c - 1
  /\ row'[c].status = "live" /\ row'[c].aCounts = 0
  /\ row'[c].user = q.user /\ SameAim(row'[c], q)
  /\ \A d \in Comments \ {c} :
       /\ row'[d].status = row[d].status /\ row'[d].user = row[d].user
       /\ SameAim(row'[d], row[d])
       /\ row'[d].aCounts = IF q.type # "QUESTION" /\ d = q.father /\ Live(d)
                            THEN row[d].aCounts + 1 ELSE row[d].aCounts

(* What an insertion does, without the order of its statements *)
LEMMA InsertInserts ==
  ASSUME CommentsInv, NEW r \in CommentRequests, Insert(r)
  PROVE  Inserts(creq[r], NextId)
<1> DEFINE q == creq[r]
<1> DEFINE c == NextId
<1> DEFINE new == [BlankRow EXCEPT !.status = "live", !.type = q.type, !.user = q.user,
                                   !.father = q.father, !.up = q.up]
<1> DEFINE rows == [row EXCEPT ![c] = new]
<1>1. /\ row \in [Comments -> CommentRow] /\ q \in Request /\ Aimed(q, row) /\ c \in Comments
      /\ row' = CountChild(q, rows)
  BY DEF Insert, CommentAt, CommentsInv, CommentsTypeOK, RequestsRight, RequestRight
<1>2. ~KnownIn(row, c) /\ \A d \in Comments : KnownIn(row, d) <=> d <= c - 1
  BY <1>1, NextIsFree
<1>3. /\ new \in CommentRow /\ new.status = "live" /\ new.aCounts = 0
      /\ new.user = q.user /\ SameAim(new, q)
  <2>1. BlankRow \in CommentRow /\ BlankRow.aCounts = 0
    BY DEF BlankRow, CommentRow, Types
  <2>2. q.type \in Types /\ q.user \in Users \cup {Nobody}
        /\ q.father \in Comments \cup {Nobody} /\ q.up \in Comments \cup {Nobody}
    BY <1>1 DEF Request
  <2> QED
    BY <2>1, <2>2 DEF CommentRow, SameAim
<1> HIDE DEF new
<1>4. /\ rows \in [Comments -> CommentRow] /\ rows[c] = new
      /\ \A d \in Comments \ {c} : rows[d] = row[d]
  BY <1>1, <1>3
<1> HIDE DEF rows, c
<1>5. CASE q.type # "QUESTION" /\ Live(q.father)
  <2>1. q.father \in Comments \ {c}
    BY <1>1, <1>2, <1>5 DEF Aimed, KnownIn
  <2>2. row' = [rows EXCEPT ![q.father].aCounts = @ + 1]
    BY <1>1, <1>5 DEF CountChild
  <2>3. row[q.father] \in CommentRow /\ rows[q.father] = row[q.father]
    BY <1>1, <1>4, <2>1
  <2>4. row'[q.father] = [row[q.father] EXCEPT !.aCounts = @ + 1]
    BY <1>4, <2>1, <2>2, <2>3
  <2>5. /\ row'[q.father] \in CommentRow
        /\ row'[q.father].aCounts = row[q.father].aCounts + 1
        /\ row'[q.father].status = row[q.father].status
        /\ row'[q.father].user = row[q.father].user /\ SameAim(row'[q.father], row[q.father])
    BY <2>3, <2>4 DEF CommentRow, SameAim
  <2>6. \A d \in Comments \ {q.father} : row'[d] = rows[d]
    BY <1>4, <2>2
  <2>7. row' \in [Comments -> CommentRow]
    BY <1>4, <2>2, <2>5, <2>6
  <2>8. row'[c] = new
    BY <1>1, <1>4, <2>1, <2>6
  <2>9. \A d \in Comments \ {c} : d # q.father => row'[d] = row[d]
    BY <1>4, <2>6
  <2> QED
    BY <1>1, <1>2, <1>3, <1>5, <2>5, <2>7, <2>8, <2>9 DEF Inserts, SameAim, c
<1>6. CASE ~(q.type # "QUESTION" /\ Live(q.father))
  <2>1. row' = rows
    BY <1>1, <1>6 DEF CountChild
  <2>2. \A d \in Comments \ {c} : row'[d] = row[d]
    BY <1>4, <2>1
  <2>3. \A d \in Comments : ~(q.type # "QUESTION" /\ d = q.father /\ Live(d))
    BY <1>6
  <2> QED
    BY <1>1, <1>2, <1>3, <1>4, <2>1, <2>2, <2>3 DEF Inserts, SameAim, c
<1> QED
  BY <1>5, <1>6 DEF c

(* A new comment is counted in the question that it is under. *)
LEMMA InsertCounts ==
  ASSUME CommentsInv, NEW q \in Request, Aimed(q, row), NEW c, Inserts(q, c)
  PROVE  AnswersCounted' /\ LiveRows' = LiveRows \cup {c} /\ c \notin LiveRows
<1>1. c \in Comments /\ c # Nobody /\ Nobody \notin Comments
  BY CommentConstants DEF Inserts, Comments
<1>2. LiveRows' = LiveRows \cup {c} /\ c \notin LiveRows
  BY <1>1 DEF LiveRows, Live, Inserts, KnownIn
<1>3. q.father # c
  BY <1>1 DEF Aimed, Inserts, Request, Types
<1>4. \A d \in LiveRows : row[d].father # c /\ row'[d].father = row[d].father
  <2> SUFFICES ASSUME NEW d \in LiveRows
               PROVE  row[d].father # c /\ row'[d].father = row[d].father
    OBVIOUS
  <2>1. KnownIn(row, d) /\ Aimed(row[d], row) /\ row[d] \in CommentRow
    BY DEF CommentsInv, CommentsTypeOK, RowsAimed, LiveRows, Live, KnownIn
  <2>2. d # c
    BY <1>2
  <2> QED
    BY <1>1, <2>1, <2>2 DEF Aimed, Inserts, CommentRow, Types, SameAim, KnownIn
<1>5. row'[c].father = q.father
  BY DEF Inserts, SameAim
<1>6. ASSUME NEW x \in LiveRows', row'[x].type = "QUESTION"
      PROVE  row'[x].aCounts = Cardinality(ThreadOf(x)')
  <2>1. CASE x = c
    <3>1. ThreadOf(x)' = {}
      BY <1>2, <1>3, <1>4, <1>5, <2>1 DEF ThreadOf
    <3>2. row'[x].aCounts = 0
      BY <2>1 DEF Inserts
    <3> QED
      BY <3>1, <3>2, FS_EmptySet
  <2>2. CASE x # c /\ x = q.father
    <3>1. ThreadOf(x)' = ThreadOf(x) \cup {c} /\ c \notin ThreadOf(x)
      BY <1>2, <1>4, <1>5, <2>2 DEF ThreadOf
    <3>2. x \in LiveRows /\ Live(x) /\ x \in Comments
      BY <1>2, <1>6, <2>2 DEF LiveRows
    <3>3. row[x].type = "QUESTION" /\ row[x].aCounts = Cardinality(ThreadOf(x))
      BY <1>6, <2>2, <3>2 DEF CommentsInv, AnswersCounted, Inserts, SameAim
    <3>4. q.type # "QUESTION"
      BY <1>1, <2>2, <3>2 DEF Aimed
    <3>5. row'[x].aCounts = row[x].aCounts + 1
      BY <2>2, <3>2, <3>4 DEF Inserts
    <3>6. IsFiniteSet(ThreadOf(x))
      BY CountsFinite DEF CommentsInv, ThreadOf
    <3>7. Cardinality(ThreadOf(x) \cup {c}) = Cardinality(ThreadOf(x)) + 1
      BY <3>1, <3>6, FS_AddElement
    <3> QED
      BY <3>1, <3>3, <3>5, <3>7
  <2>3. CASE x # c /\ x # q.father
    <3>1. ThreadOf(x)' = ThreadOf(x)
      BY <1>2, <1>4, <1>5, <2>3 DEF ThreadOf
    <3>2. x \in LiveRows /\ x \in Comments
      BY <1>2, <1>6, <2>3 DEF LiveRows
    <3>3. row[x].type = "QUESTION" /\ row'[x].aCounts = row[x].aCounts
      BY <1>6, <2>3, <3>2 DEF Inserts, SameAim
    <3> QED
      BY <3>1, <3>2, <3>3 DEF CommentsInv, AnswersCounted
  <2> QED
    BY <2>1, <2>2, <2>3
<1> QED
  BY <1>2, <1>6 DEF AnswersCounted

(* An inserted comment is in its thread. *)
LEMMA InsertRight ==
  ASSUME CommentsInv, NEW r \in CommentRequests, Insert(r), blurred' \in BOOLEAN
  PROVE  CommentsInv'
<1> DEFINE q == creq[r]
<1> DEFINE c == NextId
<1>1. /\ creq \in [CommentRequests -> Request] /\ row \in [Comments -> CommentRow]
      /\ q \in Request /\ q.at = "insert" /\ Aimed(q, row) /\ c \in Comments /\ c \in Nat
      /\ creq' = [creq EXCEPT ![r].at = "message", ![r].comment = c,
                               ![r].to = Addressee(q), ![r].n = 1]
      /\ UNCHANGED <<nstat, mails, missed>>
  BY DEF Insert, CommentAt, CommentsInv, CommentsTypeOK, RequestsRight, RequestRight, Comments
<1>2. Inserts(q, c)
  BY InsertInserts
<1>3. AnswersCounted' /\ LiveRows' = LiveRows \cup {c} /\ c \notin LiveRows
  BY <1>1, <1>2, InsertCounts
<1>4. /\ Addressee(q) \in Users \cup {Public, Nobody}
      /\ IF q.type = "QUESTION" THEN Addressee(q) = Author
         ELSE LiveIn(row, Target(q)) => Addressee(q) = row[Target(q)].user
  <2>1. q.type = "QUESTION" => Target(q) = Nobody
    BY <1>1 DEF Aimed, Target
  <2>2. q.type # "QUESTION" => Target(q) \in Comments
    BY <1>1 DEF Aimed, Target, Request, Types, KnownIn
  <2>3. Target(q) \in Comments => row[Target(q)].user \in Users \cup {Nobody}
    BY <1>1 DEF CommentRow
  <2> QED
    BY <2>1, <2>2, <2>3, CommentConstants DEF Addressee, Live, LiveIn
<1> HIDE DEF c
<1>5. /\ creq'[r] = [q EXCEPT !.at = "message", !.comment = c, !.to = Addressee(q),
                           !.n = 1]
      /\ \A s \in CommentRequests : s # r => creq'[s] = creq[s]
  BY <1>1
<1>6. /\ creq'[r] \in Request /\ creq'[r].at = "message" /\ creq'[r].comment = c
      /\ creq'[r].to = Addressee(q) /\ SameAim(creq'[r], q) /\ creq'[r].user = q.user
  <2>1. Addressee(q) \in Users \cup {Public, Nobody}
    BY <1>4
  <2>2. [q EXCEPT !.at = "message", !.comment = c, !.to = Addressee(q)] \in Request
    BY <1>1, <2>1 DEF Request
  <2>3. [[q EXCEPT !.at = "message", !.comment = c, !.to = Addressee(q)] EXCEPT !.n = 1] \in Request
    <3> DEFINE x == [q EXCEPT !.at = "message", !.comment = c, !.to = Addressee(q)]
    <3>1. x \in Request
      BY <2>2
    <3> HIDE DEF x
    <3>2. [x EXCEPT !.n = 1] \in Request
      BY <3>1 DEF Request
    <3> QED
      BY <3>2 DEF x
  <2>4. creq'[r] \in Request
    BY <1>5, <2>3
  <2> QED
    BY <1>1, <1>5, <2>4 DEF Request, SameAim
<1>7. creq' \in [CommentRequests -> Request]
  BY <1>1, <1>6
<1>8. Settled(row, row')
  BY <1>2 DEF Inserts, Settled, KnownIn, LiveIn
<1>9. KnownIn(row', c) /\ Aimed(q, row') /\ SameAim(row'[c], q) /\ row'[c].user = q.user
  BY <1>1, <1>2, <1>8, AimStays DEF Inserts, KnownIn
<1>10. RequestRight(creq'[r], row')
  <2>1. Aimed(creq'[r], row')
    BY <1>6, <1>9 DEF Aimed, SameAim
  <2>2. Target(creq'[r]) = Target(q) /\ creq'[r].type = q.type
    BY <1>6 DEF Target, SameAim
  <2>3. q.type # "QUESTION" => KnownIn(row, Target(q))
    BY <1>1 DEF Aimed, Target, Request, Types
  <2>4. q.type # "QUESTION" /\ LiveIn(row', Target(q)) =>
          LiveIn(row, Target(q)) /\ row'[Target(q)].user = row[Target(q)].user
    BY <1>8, <2>3 DEF Settled, KnownIn
  <2> QED
    BY <1>4, <1>6, <1>9, <2>1, <2>2, <2>4 DEF RequestRight, SameAim
<1>11. RequestsRight'
  BY <1>5, <1>8, <1>10, RequestsStay DEF CommentsInv
<1>12. RowsAimed'
  <2>1. ASSUME NEW d \in Comments, KnownIn(row', d)
        PROVE  Aimed(row'[d], row')
    <3>1. CASE d = c
      BY <1>9, <3>1 DEF Aimed, SameAim
    <3>2. CASE d # c
      <4>1. KnownIn(row, d) /\ Aimed(row[d], row)
        BY <1>2, <2>1, <3>2 DEF Inserts, KnownIn, CommentsInv, RowsAimed
      <4>2. Aimed(row[d], row')
        BY <1>8, <4>1, AimStays
      <4>3. SameAim(row'[d], row[d]) /\ row'[d].user = row[d].user
        BY <1>2, <3>2 DEF Inserts
      <4> QED
        BY <4>2, <4>3 DEF Aimed, SameAim
    <3> QED
      BY <3>1, <3>2
  <2>2. \A d \in Comments : KnownIn(row', d) <=> d <= c
    <3>1. \A d \in Comments : KnownIn(row', d) <=> KnownIn(row, d) \/ d = c
      BY <1>2, <1>9 DEF Inserts, KnownIn
    <3> QED
      BY <1>1, <1>2, <3>1 DEF Inserts, Comments
  <2>3. c \in 0..MaxComments
    BY <1>1, CommentConstants DEF Comments
  <2> QED
    BY <2>1, <2>2, <2>3 DEF RowsAimed
<1>13. CommentsTypeOK'
  BY <1>1, <1>2, <1>7 DEF CommentsInv, CommentsTypeOK, Inserts
<1>14. MailsKnown' /\ MailsAddressed'
  <2>1. MailsKnown /\ MailsAddressed /\ CommentsTypeOK /\ RowsAimed
    BY DEF CommentsInv
  <2>2. \A m \in mails :
           /\ KnownIn(row', m.comment)
           /\ LET d == row'[m.comment] IN
              m.to = IF d.type = "QUESTION" THEN Author ELSE row'[Target(d)].user
    BY <1>8, <2>1, RowsStay
  <2> QED
    BY <1>1, <2>2 DEF MailsKnown, MailsAddressed, Target
<1> QED
  BY <1>3, <1>11, <1>12, <1>13, <1>14 DEF CommentsInv

(* What the transaction of deleteOne does to the rows *)
Deletes(c) ==
  /\ row \in [Comments -> CommentRow] /\ row' \in [Comments -> CommentRow]
  /\ \A d \in Comments :
       /\ row'[d].status = IF d \in Doomed(c) THEN "deleted" ELSE row[d].status
       /\ row'[d].user = row[d].user /\ SameAim(row'[d], row[d])
       /\ row'[d].aCounts = IF row[c].type # "QUESTION" /\ d = row[c].father /\ Live(d)
                            THEN row[d].aCounts - Cardinality(Doomed(c)) ELSE row[d].aCounts

(* What a deletion does, without the order of its statements *)
LEMMA DeleteDeletes ==
  ASSUME CommentsInv, NEW r \in CommentRequests, Delete(r)
  PROVE  Deletes(creq[r].comment)
<1> DEFINE c == creq[r].comment
<1> DEFINE gone == Doomed(c)
<1> DEFINE n == Cardinality(gone)
<1> DEFINE rows == [d \in Comments |-> IF d \in gone THEN [row[d] EXCEPT !.status = "deleted"]
                                       ELSE row[d]]
<1>1. /\ row \in [Comments -> CommentRow] /\ KnownIn(row, c)
      /\ row' = IF row[c].type = "QUESTION" THEN rows ELSE UncountChildren(row[c].father, n, rows)
  BY DEF Delete, CommentAt, CommentsInv, CommentsTypeOK, RequestsRight, RequestRight
<1>2. n \in Nat
  BY CountsFinite DEF CommentsInv, Doomed, LiveRows
<1>3. /\ rows \in [Comments -> CommentRow]
      /\ \A d \in Comments :
           /\ rows[d].status = IF d \in gone THEN "deleted" ELSE row[d].status
           /\ rows[d].user = row[d].user /\ SameAim(rows[d], row[d])
           /\ rows[d].aCounts = row[d].aCounts
  <2>1. ASSUME NEW d \in Comments
        PROVE  /\ rows[d] \in CommentRow
               /\ rows[d].status = IF d \in gone THEN "deleted" ELSE row[d].status
               /\ rows[d].user = row[d].user /\ SameAim(rows[d], row[d])
               /\ rows[d].aCounts = row[d].aCounts
    <3>1. row[d] \in CommentRow
      BY <1>1
    <3> HIDE DEF gone
    <3> QED
      BY <3>1 DEF CommentRow, SameAim
  <2> QED
    BY <2>1
<1> HIDE DEF rows, n, gone
<1>4. CASE row[c].type # "QUESTION" /\ Live(row[c].father)
  <2> DEFINE f == row[c].father
  <2>1. f \in Comments
    BY <1>1, <1>4 DEF CommentsInv, RowsAimed, Aimed, KnownIn
  <2>2. row' = [rows EXCEPT ![f].aCounts = @ - n]
    BY <1>1, <1>4 DEF UncountChildren
  <2> HIDE DEF f
  <2>3. row'[f] = [rows[f] EXCEPT !.aCounts = @ - n] /\ rows[f] \in CommentRow
    BY <1>3, <2>1, <2>2
  <2>4. /\ row'[f] \in CommentRow /\ row'[f].aCounts = rows[f].aCounts - n
        /\ row'[f].status = rows[f].status /\ row'[f].user = rows[f].user
        /\ SameAim(row'[f], rows[f])
    BY <1>2, <2>3 DEF CommentRow, SameAim
  <2>5. \A d \in Comments \ {f} : row'[d] = rows[d]
    BY <1>3, <2>2
  <2>6. row' \in [Comments -> CommentRow]
    BY <1>3, <2>2, <2>4, <2>5
  <2>7. ASSUME NEW d \in Comments
        PROVE  /\ row'[d].status = IF d \in gone THEN "deleted" ELSE row[d].status
               /\ row'[d].user = row[d].user /\ SameAim(row'[d], row[d])
               /\ row'[d].aCounts = IF d = f THEN row[d].aCounts - n ELSE row[d].aCounts
    BY <1>3, <2>1, <2>4, <2>5 DEF SameAim
  <2> QED
    BY <1>1, <1>4, <2>6, <2>7 DEF Deletes, f, n, gone
<1>5. CASE ~(row[c].type # "QUESTION" /\ Live(row[c].father))
  <2>1. row' = rows
    BY <1>1, <1>5 DEF UncountChildren
  <2>2. \A d \in Comments : ~(row[c].type # "QUESTION" /\ d = row[c].father /\ Live(d))
    BY <1>5
  <2> QED
    BY <1>1, <1>3, <2>1, <2>2 DEF Deletes, n, gone
<1> QED
  BY <1>4, <1>5

(* A deletion takes comments of one thread: the thread of a question with    *)
(* the question, or answers and replies under one question.                  *)
LEMMA DoomedTogether ==
  ASSUME CommentsInv, NEW c, KnownIn(row, c)
  PROVE  \A d \in Doomed(c) :
           /\ d \in LiveRows
           /\ IF row[c].type = "QUESTION" THEN d = c \/ row[d].father = c
              ELSE row[d].type # "QUESTION" /\ row[d].father = row[c].father
<1> SUFFICES ASSUME NEW d \in Doomed(c)
             PROVE  /\ d \in LiveRows
                    /\ IF row[c].type = "QUESTION" THEN d = c \/ row[d].father = c
                       ELSE row[d].type # "QUESTION" /\ row[d].father = row[c].father
  OBVIOUS
<1>1. /\ d \in LiveRows
      /\ \/ d = c
         \/ row[c].type = "QUESTION" /\ row[d].father = c
         \/ row[c].type = "ANSWER" /\ row[d].up = c
  BY DEF Doomed
<1>2. KnownIn(row, d) /\ Aimed(row[d], row) /\ row[d] \in CommentRow
  BY <1>1 DEF LiveRows, Live, KnownIn, CommentsInv, CommentsTypeOK, RowsAimed
<1>3. c # Nobody
  BY CommentConstants DEF KnownIn, Comments
<1>4. row[d].up = c => row[d].type # "QUESTION" /\ row[d].father = row[c].father
  BY <1>2, <1>3 DEF Aimed, CommentRow, Types
<1> QED
  BY <1>1, <1>4

(* What is left of a question counts what is left under it. *)
LEMMA DeleteCounts ==
  ASSUME CommentsInv, NEW c, KnownIn(row, c), Deletes(c)
  PROVE  AnswersCounted' /\ LiveRows' = LiveRows \ Doomed(c) /\ Doomed(c) \subseteq LiveRows
<1> DEFINE gone == Doomed(c)
<1>1. gone \subseteq LiveRows
  BY DEF Doomed
<1>2. LiveRows' = LiveRows \ gone
  BY DEF LiveRows, Live, Deletes
<1>3. \A d \in LiveRows : row'[d].father = row[d].father
  BY DEF Deletes, SameAim, LiveRows
<1>4. ASSUME NEW x \in LiveRows', row'[x].type = "QUESTION"
      PROVE  row'[x].aCounts = Cardinality(ThreadOf(x)')
  <2>1. x \in LiveRows /\ x \notin gone /\ x \in Comments /\ Live(x) /\ KnownIn(row, x)
    BY <1>2 DEF LiveRows, Live, KnownIn
  <2>2. row[x].type = "QUESTION" /\ row[x].aCounts = Cardinality(ThreadOf(x))
    BY <1>4, <2>1 DEF CommentsInv, AnswersCounted, Deletes, SameAim
  <2>3. ThreadOf(x)' = ThreadOf(x) \ gone
    BY <1>2, <1>3 DEF ThreadOf
  <2>4. /\ IsFiniteSet(ThreadOf(x)) /\ Cardinality(ThreadOf(x)) \in Nat
        /\ IsFiniteSet(gone) /\ Cardinality(gone) \in Nat
    BY <1>1, CountsFinite DEF CommentsInv, ThreadOf, LiveRows
  <2>5. CASE row[c].type # "QUESTION" /\ x = row[c].father
    <3>1. gone \subseteq ThreadOf(x)
      BY <1>1, <2>5, DoomedTogether DEF ThreadOf
    <3>2. row'[x].aCounts = row[x].aCounts - Cardinality(gone)
      BY <2>1, <2>5 DEF Deletes
    <3>3. Cardinality(ThreadOf(x) \ gone) = Cardinality(ThreadOf(x)) - Cardinality(gone)
      <4> HIDE DEF gone
      <4>1. ThreadOf(x) \cap gone = gone
        BY <3>1
      <4> QED
        BY <2>4, <4>1, FS_Difference
    <3> QED
      BY <2>2, <2>3, <3>2, <3>3
  <2>6. CASE ~(row[c].type # "QUESTION" /\ x = row[c].father)
    <3>1. row'[x].aCounts = row[x].aCounts
      BY <2>1, <2>6 DEF Deletes
    <3>2. ThreadOf(x) \cap gone = {}
      <4>1. ASSUME NEW d \in ThreadOf(x), d \in gone
            PROVE  FALSE
        <5>1. row[d].father = x /\ d \in LiveRows
          BY DEF ThreadOf
        <5>2. CASE row[c].type # "QUESTION"
          BY <2>6, <4>1, <5>1, <5>2, DoomedTogether
        <5>3. CASE row[c].type = "QUESTION" /\ x = c
          BY <2>1, <5>3 DEF Doomed
        <5>4. CASE row[c].type = "QUESTION" /\ x # c
          <6>1. d = c
            BY <4>1, <5>1, <5>4, DoomedTogether
          <6>2. row[c].father = Nobody
            BY <5>4 DEF CommentsInv, RowsAimed, Aimed, KnownIn
          <6>3. x # Nobody
            BY <2>1, CommentConstants DEF Comments
          <6> QED
            BY <5>1, <6>1, <6>2, <6>3
        <5> QED
          BY <5>2, <5>3, <5>4
      <4> QED
        BY <4>1
    <3>3. ThreadOf(x)' = ThreadOf(x)
      BY <2>3, <3>2
    <3> QED
      BY <2>2, <3>1, <3>3
  <2> QED
    BY <2>5, <2>6
<1> QED
  BY <1>1, <1>2, <1>4 DEF AnswersCounted

(* A deleted comment takes from its question what is deleted with it. *)
LEMMA DeleteRight ==
  ASSUME CommentsInv, NEW r \in CommentRequests, Delete(r), blurred' \in BOOLEAN
  PROVE  CommentsInv'
<1> DEFINE q == creq[r]
<1> DEFINE c == q.comment
<1> DEFINE gone == Doomed(c)
<1> DEFINE n == Cardinality(gone)
<1>1. /\ creq \in [CommentRequests -> Request] /\ q \in Request /\ q.at = "delete"
      /\ KnownIn(row, c) /\ row \in [Comments -> CommentRow]
      /\ creq' = [creq EXCEPT ![r].at = "exists", ![r].n = -n]
      /\ UNCHANGED <<nstat, mails, missed>>
  BY DEF Delete, CommentAt, CommentsInv, CommentsTypeOK, RequestsRight, RequestRight
<1>2. Deletes(c)
  BY DeleteDeletes
<1>3. AnswersCounted' /\ LiveRows' = LiveRows \ gone /\ gone \subseteq LiveRows
  BY <1>1, <1>2, DeleteCounts
<1>4. n \in 0..MaxComments /\ IsFiniteSet(gone)
  BY <1>3, CountsFinite, CommentConstants DEF CommentsInv, LiveRows
<1> HIDE DEF n, gone
<1>5. /\ creq'[r] = [q EXCEPT !.at = "exists", !.n = -n]
      /\ \A s \in CommentRequests : s # r => creq'[s] = creq[s]
  BY <1>1
<1>6. creq'[r] \in Request /\ creq'[r].at = "exists"
  <2>1. -n \in Int
    BY <1>4, CommentConstants
  <2> QED
    BY <1>1, <1>5, <2>1 DEF Request
<1>7. creq' \in [CommentRequests -> Request]
  BY <1>1, <1>6
<1>8. Settled(row, row')
  BY <1>2 DEF Deletes, Settled, KnownIn, LiveIn
<1>9. RequestRight(creq'[r], row')
  BY <1>6 DEF RequestRight
<1>10. RequestsRight'
  BY <1>5, <1>8, <1>9, RequestsStay DEF CommentsInv
<1>11. RowsAimed'
  <2>1. \A d \in Comments : KnownIn(row', d) <=> KnownIn(row, d)
    BY <1>1, <1>2, <1>3 DEF Deletes, KnownIn, LiveRows, Live, gone
  <2>2. ASSUME NEW d \in Comments, KnownIn(row', d)
        PROVE  Aimed(row'[d], row')
    <3>1. Aimed(row[d], row)
      BY <2>1, <2>2 DEF CommentsInv, RowsAimed
    <3>2. Aimed(row[d], row')
      BY <1>8, <3>1, AimStays
    <3>3. SameAim(row'[d], row[d]) /\ row'[d].user = row[d].user
      BY <1>2 DEF Deletes
    <3> QED
      BY <3>2, <3>3 DEF Aimed, SameAim
  <2> QED
    BY <2>1, <2>2 DEF CommentsInv, RowsAimed
<1>12. CommentsTypeOK'
  BY <1>1, <1>2, <1>7 DEF CommentsInv, CommentsTypeOK, Deletes
<1>13. MailsKnown' /\ MailsAddressed'
  <2>1. MailsKnown /\ MailsAddressed /\ CommentsTypeOK /\ RowsAimed
    BY DEF CommentsInv
  <2>2. \A m \in mails :
           /\ KnownIn(row', m.comment)
           /\ LET d == row'[m.comment] IN
              m.to = IF d.type = "QUESTION" THEN Author ELSE row'[Target(d)].user
    BY <1>8, <2>1, RowsStay
  <2> QED
    BY <1>1, <2>2 DEF MailsKnown, MailsAddressed, Target
<1> QED
  BY <1>3, <1>10, <1>11, <1>12, <1>13 DEF CommentsInv

(* The synchronisation leaves the rows and the requests alone. *)
LEMMA SyncsRight ==
  ASSUME CommentsInv, blurred' \in BOOLEAN, BeginSync \/ EndSync \/ SyncLoses
  PROVE  CommentsInv'
<1>1. UNCHANGED <<row, mails, creq, missed>> /\ nstat \in StatRow
  BY DEF BeginSync, EndSync, SyncLoses, CommentsInv, CommentsTypeOK
<1>2. nstat' \in StatRow
  <2>1. CASE BeginSync
    BY <1>1, <2>1 DEF BeginSync, StatRow
  <2>2. CASE EndSync
    <3>1. StatShown \in Nat
      BY <1>1, <2>2 DEF EndSync, StatShown, StatRow
    <3> QED
      BY <2>2, <3>1 DEF EndSync, StatRow
  <2>3. CASE SyncLoses
    BY <1>1, <2>3 DEF SyncLoses, StatRow
  <2> QED
    BY <2>1, <2>2, <2>3
<1>3. AnswersCounted' /\ MailsKnown' /\ MailsAddressed'
  BY <1>1 DEF CommentsInv, AnswersCounted, ThreadOf, LiveRows, Live, MailsKnown, MailsAddressed, Target
<1> QED
  BY <1>1, <1>2, <1>3 DEF CommentsInv, CommentsTypeOK, RowsAimed, RequestsRight

(* Every step preserves the invariant. *)
LEMMA CommentsStep ==
  ASSUME CommentsInv, [CommentsNext]_commentVars
  PROVE  CommentsInv'
<1>1. CASE CommentsNext
  <2>1. blurred' \in BOOLEAN
    BY <1>1 DEF CommentsNext, CommentsInv, CommentsTypeOK
  <2>2. CASE BeginSync \/ EndSync \/ SyncLoses
    BY <2>1, <2>2, SyncsRight
  <2>3. ASSUME NEW r \in CommentRequests, CommentStep(r)
        PROVE  CommentsInv'
    <3>1. CASE \E u \in Writers, t \in Types, f, up \in Comments \cup {Nobody} :
                 BeginCreate(r, u, t, f, up)
      BY <2>1, <3>1, BeginCreateRight
    <3>2. CASE \E c \in Comments : BeginDelete(r, c)
      BY <2>1, <3>2, BeginDeleteRight
    <3>3. CASE Insert(r) \/ Message(r) \/ Delete(r)
      BY <2>1, <3>3, InsertRight, MessageRight, DeleteRight
    <3>4. CASE \/ BeginOther(r) \/ FindStat(r) \/ ReadStat(r)
               \/ LoadStat(r) \/ AddStat(r) \/ CommentFails(r)
      BY <2>1, <3>4, CountingRight
    <3> QED
      BY <2>3, <3>1, <3>2, <3>3, <3>4 DEF CommentStep
  <2> QED
    BY <1>1, <2>2, <2>3 DEF CommentsNext
<1>2. CASE UNCHANGED commentVars
  <2>1. UNCHANGED <<row, nstat, mails, creq, missed, blurred>>
    BY <1>2 DEF commentVars
  <2>2. AnswersCounted' /\ MailsKnown' /\ MailsAddressed'
    BY <2>1 DEF CommentsInv, AnswersCounted, ThreadOf, LiveRows, Live, MailsKnown, MailsAddressed, Target
  <2> QED
    BY <2>1, <2>2 DEF CommentsInv, CommentsTypeOK, RowsAimed, RequestsRight
<1> QED
  BY <1>1, <1>2

(* The invariant of the comments holds in every state. *)
LEMMA CommentsAlways == CommentsSpec => []CommentsInv
BY InitComments, CommentsStep, PTL DEF CommentsSpec

(* Nothing is owed at the start. *)
LEMMA InitStat == CommentsInit => StatRight
<1> SUFFICES ASSUME CommentsInit
             PROVE  StatRight
  OBVIOUS
<1>1. \A r \in CommentRequests : creq[r].at = "idle" /\ creq[r].n = 0
  BY DEF CommentsInit, NoRequest
<1>2. LiveRows = {} /\ Cardinality({}) = 0
  BY FS_EmptySet DEF CommentsInit, LiveRows, Live, BlankRow
<1>3. Sum(Owed, CommentRequests) = 0
  <2>1. \A r \in CommentRequests : Owed[r] = 0
    BY <1>1 DEF Owed
  <2> QED
    BY <2>1, SumOfZeros, CommentConstants
<1>4. StatShown = 0 /\ missed = 0 /\ nstat.syncing = FALSE
  BY DEF CommentsInit, StatShown
<1> QED
  BY <1>1, <1>2, <1>3, <1>4 DEF StatRight, StatOverlap, CommentAt

(* What one request adds, owes no more, or inserts, leaves the sum right. *)
LEMMA SumStays ==
  ASSUME CommentsInv, CommentsInv', NEW r \in CommentRequests,
         \A s \in CommentRequests : s # r => creq'[s] = creq[s],
         StatShown + Sum(Owed, CommentRequests) + missed = Cardinality(LiveRows),
         StatShown' + creq'[r].n + missed' - Cardinality(LiveRows') =
           StatShown + creq[r].n + missed - Cardinality(LiveRows)
  PROVE  StatShown' + Sum(Owed', CommentRequests) + missed' = Cardinality(LiveRows')
<1>1. /\ StatShown \in Int /\ StatShown' \in Int /\ missed \in Int /\ missed' \in Int
      /\ creq[r].n \in Int /\ creq'[r].n \in Int
  BY DEF CommentsInv, CommentsTypeOK, StatRow, StatShown, Request
<1>2. /\ Cardinality(LiveRows) \in Int /\ LiveRows \subseteq Comments
      /\ Terms(Owed, CommentRequests) /\ Sum(Owed, CommentRequests) \in Int
  BY CountsFinite DEF CommentsInv
<1>3. Cardinality(LiveRows') \in Int
  <2>1. LiveRows' \subseteq Comments
    BY DEF LiveRows
  <2> QED
    BY <2>1, CountsFinite DEF CommentsInv
<1>4. Owed[r] = creq[r].n /\ Owed'[r] = creq'[r].n /\ \A s \in CommentRequests \ {r} : Owed'[s] = Owed[s]
  BY DEF Owed
<1>5. Sum(Owed', CommentRequests) = Sum(Owed, CommentRequests) + creq'[r].n - creq[r].n
  BY <1>1, <1>2, <1>4, SumWithOne
<1> QED
  BY <1>1, <1>2, <1>3, <1>5

(* What a request does to the statistic and to what it owes *)
LEMMA RequestPays ==
  ASSUME CommentsInv, NEW r \in CommentRequests, CommentStep(r), StatRight, ~blurred
  PROVE  /\ \A s \in CommentRequests : s # r => creq'[s] = creq[s]
         /\ StatShown' + creq'[r].n + missed' - Cardinality(LiveRows') =
              StatShown + creq[r].n + missed - Cardinality(LiveRows)
         /\ StatShown' = StatShown \/ (creq[r].at = "add" /\ creq[r].n # 0)
         /\ creq'[r].at = "load" => creq'[r].got = StatShown'
         /\ nstat.cached # Nobody \/ creq'[r].at = "add" => nstat'.cached # Nobody
<1>1. /\ creq \in [CommentRequests -> Request] /\ creq[r] \in Request /\ nstat \in StatRow
      /\ missed \in Int /\ StatShown \in Int /\ creq[r].n \in Int /\ RequestRight(creq[r], row)
  BY DEF CommentsInv, CommentsTypeOK, StatRow, StatShown, Request, RequestsRight
<1>2. Nobody \notin Int /\ NoRequest.n = 0 /\ NoRequest.at = "idle"
  BY CommentConstants DEF NoRequest
<1>3. Cardinality(LiveRows) \in Int
  BY CountsFinite DEF CommentsInv
<1>4. CASE Insert(r)
  <2>1. /\ creq[r].n = 0 /\ UNCHANGED <<nstat, missed>> /\ Aimed(creq[r], row)
        /\ creq' = [creq EXCEPT ![r].at = "message", ![r].comment = NextId,
                                ![r].to = Addressee(creq[r]), ![r].n = 1]
    BY <1>1, <1>4 DEF Insert, CommentAt, RequestRight
  <2>2. LiveRows' = LiveRows \cup {NextId} /\ NextId \notin LiveRows
    BY <1>1, <1>4, <2>1, InsertInserts, InsertCounts
  <2>3. Cardinality(LiveRows') = Cardinality(LiveRows) + 1
    BY <2>2, CountsFinite, FS_AddElement DEF CommentsInv
  <2>4. creq'[r].n = 1 /\ creq'[r].at = "message"
    BY <1>1, <2>1 DEF Request
  <2> QED
    BY <1>1, <1>3, <2>1, <2>3, <2>4 DEF StatShown
<1>5. CASE Delete(r)
  <2> DEFINE gone == Doomed(creq[r].comment)
  <2>1. /\ creq[r].n = 0 /\ UNCHANGED <<nstat, missed>> /\ KnownIn(row, creq[r].comment)
        /\ creq' = [creq EXCEPT ![r].at = "exists", ![r].n = -Cardinality(gone)]
    BY <1>1, <1>5 DEF Delete, CommentAt, RequestRight
  <2>2. LiveRows' = LiveRows \ gone /\ gone \subseteq LiveRows
    BY <1>5, <2>1, DeleteDeletes, DeleteCounts
  <2>3. IsFiniteSet(gone) /\ IsFiniteSet(LiveRows) /\ Cardinality(gone) \in Nat
    BY <2>2, CountsFinite DEF CommentsInv, LiveRows
  <2> HIDE DEF gone
  <2>4. Cardinality(LiveRows \ gone) = Cardinality(LiveRows) - Cardinality(gone)
    BY <2>2, <2>3, CardinalityOfRest
  <2>5. Cardinality(LiveRows') = Cardinality(LiveRows) - Cardinality(gone)
    BY <2>2, <2>4
  <2>6. creq'[r].n = -Cardinality(gone) /\ creq'[r].at = "exists"
    BY <1>1, <2>1 DEF Request
  <2> QED
    BY <1>1, <1>3, <2>1, <2>3, <2>5, <2>6 DEF StatShown
<1>6. CASE UNCHANGED row
  <2>1. LiveRows' = LiveRows
    BY <1>6 DEF LiveRows, Live
  <2>2. CASE \/ \E u \in Writers, t \in Types, f, up \in Comments \cup {Nobody} :
                  BeginCreate(r, u, t, f, up)
             \/ \E c \in Comments : BeginDelete(r, c)
             \/ BeginOther(r)
    <3>1. creq[r] = NoRequest /\ UNCHANGED <<nstat, missed>>
      BY <2>2 DEF BeginCreate, BeginDelete, BeginOther
    <3>2. /\ \A s \in CommentRequests : s # r => creq'[s] = creq[s]
          /\ creq'[r].n = 0 /\ creq'[r].at \in {"insert", "delete", "exists"}
      <4>1. CASE \E u \in Writers, t \in Types, f, up \in Comments \cup {Nobody} :
                   BeginCreate(r, u, t, f, up)
        BY <1>1, <4>1 DEF BeginCreate, NoRequest
      <4>2. CASE \E c \in Comments : BeginDelete(r, c)
        BY <1>1, <4>2 DEF BeginDelete, NoRequest
      <4>3. CASE BeginOther(r)
        BY <1>1, <3>1, <4>3 DEF BeginOther, CommentGoto, NoRequest
      <4> QED
        BY <2>2, <4>1, <4>2, <4>3
    <3> QED
      BY <1>1, <1>2, <1>3, <2>1, <3>1, <3>2 DEF StatShown
  <2>3. CASE Message(r) \/ FindStat(r) \/ ReadStat(r)
    <3>1. UNCHANGED <<nstat, missed>>
      BY <2>3 DEF Message, FindStat, ReadStat
    <3>2. /\ \A s \in CommentRequests : s # r => creq'[s] = creq[s]
          /\ creq'[r].n = creq[r].n
          /\ creq'[r].at = "load" => creq'[r].got = StatShown
          /\ creq'[r].at = "add" => nstat.cached # Nobody
      BY <1>1, <2>3 DEF Message, FindStat, ReadStat, CommentGoto, Request
    <3> QED
      BY <1>1, <1>3, <2>1, <3>1, <3>2 DEF StatShown
  <2>4. CASE LoadStat(r)
    <3>1. /\ creq[r].got = StatShown /\ nstat' = [nstat EXCEPT !.cached = creq[r].got]
          /\ missed' = missed
      BY <2>4 DEF LoadStat, StatRight
    <3>2. nstat'.cached = StatShown /\ StatShown' = StatShown
      BY <1>1, <1>2, <3>1 DEF StatRow, StatShown
    <3>3. /\ \A s \in CommentRequests : s # r => creq'[s] = creq[s]
          /\ creq'[r].n = creq[r].n /\ creq'[r].at = "add"
      BY <1>1, <2>4 DEF LoadStat, CommentGoto, Request
    <3> QED
      BY <1>1, <1>2, <1>3, <2>1, <3>1, <3>2, <3>3
  <2>5. CASE AddStat(r)
    <3>1. /\ nstat.cached # Nobody /\ creq[r].at = "add" /\ missed' = missed
          /\ nstat' = [nstat EXCEPT !.cached = StatAdded(creq[r].n)]
      BY <2>5 DEF AddStat, StatRight, CommentAt
    <3>2. nstat'.cached = StatShown + creq[r].n /\ StatShown' = StatShown + creq[r].n
      BY <1>1, <1>2, <3>1 DEF StatRow, StatShown, StatAdded
    <3>3. /\ \A s \in CommentRequests : s # r => creq'[s] = creq[s]
          /\ creq'[r] = NoRequest
      BY <1>1, <2>5 DEF AddStat, CommentEnds
    <3> QED
      BY <1>1, <1>2, <1>3, <2>1, <3>1, <3>2, <3>3
  <2>6. CASE CommentFails(r)
    <3>1. /\ missed' = missed + creq[r].n /\ nstat' = nstat
          /\ \A s \in CommentRequests : s # r => creq'[s] = creq[s]
          /\ creq'[r] = NoRequest
      BY <1>1, <2>6 DEF CommentFails, CommentEnds
    <3> QED
      BY <1>1, <1>2, <1>3, <2>1, <3>1 DEF StatShown
  <2> QED
    BY <1>4, <1>5, <2>2, <2>3, <2>4, <2>5, <2>6 DEF CommentStep
<1>7. UNCHANGED row \/ Insert(r) \/ Delete(r)
  BY DEF CommentStep, BeginCreate, BeginDelete, BeginOther, Message, FindStat, ReadStat,
         LoadStat, AddStat, CommentFails
<1> QED
  BY <1>4, <1>5, <1>6, <1>7

(* Until it is blurred, every step keeps the statistic right. *)
LEMMA StatStep ==
  ASSUME CommentsInv, CommentsInv', StatRight, [CommentsNext]_commentVars
  PROVE  StatRight'
<1> SUFFICES ASSUME ~blurred'
             PROVE  /\ (StatShown + Sum(Owed, CommentRequests) + missed = Cardinality(LiveRows))'
                    /\ ~StatOverlap'
                    /\ \A r \in CommentRequests :
                         /\ creq'[r].at = "load" => creq'[r].got = StatShown'
                         /\ creq'[r].at = "add" => nstat'.cached # Nobody
  BY DEF StatRight, CommentAt
<1>1. CASE UNCHANGED commentVars
  <2>1. UNCHANGED <<row, nstat, mails, creq, missed, blurred>>
    BY <1>1 DEF commentVars
  <2>2. StatShown' = StatShown /\ Owed' = Owed /\ LiveRows' = LiveRows /\ (StatOverlap' <=> StatOverlap)
    BY <2>1 DEF StatShown, Owed, LiveRows, Live, StatOverlap, InStat, CommentAt
  <2> QED
    BY <2>1, <2>2 DEF StatRight, CommentAt
<1>2. CASE CommentsNext
  <2>1. /\ ~blurred /\ ~StatOverlap'
        /\ (\E r \in CommentRequests : CommentStep(r)) \/ BeginSync \/ EndSync
    BY <1>2 DEF CommentsNext
  <2>2. /\ StatShown + Sum(Owed, CommentRequests) + missed = Cardinality(LiveRows)
        /\ ~StatOverlap
        /\ \A r \in CommentRequests :
             /\ creq[r].at = "load" => creq[r].got = StatShown
             /\ creq[r].at = "add" => nstat.cached # Nobody
    BY <2>1 DEF StatRight, CommentAt
  <2>3. ASSUME NEW r \in CommentRequests, CommentStep(r)
        PROVE  /\ StatShown' + Sum(Owed', CommentRequests) + missed' = Cardinality(LiveRows')
               /\ \A s \in CommentRequests :
                    /\ creq'[s].at = "load" => creq'[s].got = StatShown'
                    /\ creq'[s].at = "add" => nstat'.cached # Nobody
    <3>1. /\ \A s \in CommentRequests : s # r => creq'[s] = creq[s]
          /\ StatShown' + creq'[r].n + missed' - Cardinality(LiveRows') =
               StatShown + creq[r].n + missed - Cardinality(LiveRows)
          /\ StatShown' = StatShown \/ (creq[r].at = "add" /\ creq[r].n # 0)
          /\ creq'[r].at = "load" => creq'[r].got = StatShown'
          /\ nstat.cached # Nobody \/ creq'[r].at = "add" => nstat'.cached # Nobody
      BY <2>1, <2>3, RequestPays
    <3>2. creq[r].at = "add" /\ creq[r].n # 0 =>
            \A s \in CommentRequests : s # r => creq[s].at # "load"
      BY <2>2 DEF StatOverlap, InStat, CommentAt
    <3> QED
      BY <2>2, <3>1, <3>2, SumStays
  <2>4. ASSUME BeginSync \/ EndSync
        PROVE  /\ StatShown' + Sum(Owed', CommentRequests) + missed' = Cardinality(LiveRows')
               /\ \A s \in CommentRequests :
                    /\ creq'[s].at = "load" => creq'[s].got = StatShown'
                    /\ creq'[s].at = "add" => nstat'.cached # Nobody
    <3>1. UNCHANGED <<row, creq, missed>> /\ Owed' = Owed /\ LiveRows' = LiveRows
      BY <2>4 DEF BeginSync, EndSync, Owed, LiveRows, Live
    <3>2. CASE BeginSync
      <4>1. nstat'.cached = nstat.cached /\ StatShown' = StatShown
        BY <3>2 DEF BeginSync, StatShown, CommentsInv, CommentsTypeOK, StatRow
      <4> QED
        BY <2>2, <3>1, <4>1
    <3>3. CASE EndSync
      <4>1. StatShown' = StatShown
        BY <3>3 DEF EndSync, StatShown
      <4>2. \A s \in CommentRequests : creq[s].at \notin {"load", "add"}
        BY <2>2, <3>3 DEF EndSync, StatOverlap, InStat
      <4> QED
        BY <2>2, <3>1, <4>1, <4>2
    <3> QED
      BY <2>4, <3>2, <3>3
  <2> QED
    BY <2>1, <2>3, <2>4
<1> QED
  BY <1>1, <1>2

(* However creations and deletions overlap, each question counts its own     *)
(* thread; and when no request is in progress, the statistic of the note and *)
(* what failed requests did not add to it make up the live comments, as long *)
(* as no update has met another that loads the hash, or the synchronisation  *)
(* (NoteCommentService.createOne, deleteOne, NoteStatService.updateStat).    *)
THEOREM CommentsAreCounted == CommentsSpec => []CommentsCounted
<1>1. ASSUME CommentsInv, StatRight, AtRest, ~blurred
      PROVE  StatShown = Cardinality(LiveRows) - missed
  <2>1. Sum(Owed, CommentRequests) = 0
    <3>1. \A r \in CommentRequests : Owed[r] = 0
      BY <1>1 DEF AtRest, NoRequest, Owed
    <3> QED
      BY <3>1, SumOfZeros, CommentConstants
  <2>2. StatShown \in Int /\ missed \in Int /\ Cardinality(LiveRows) \in Nat
    BY <1>1, CountsFinite DEF CommentsInv, CommentsTypeOK, StatRow, StatShown
  <2> QED
    BY <1>1, <2>1, <2>2 DEF StatRight
<1>2. CommentsInv /\ StatRight => CommentsCounted
  BY <1>1 DEF CommentsCounted, CommentsInv
<1>3. CommentsInv /\ CommentsInv' /\ StatRight /\ [CommentsNext]_commentVars => StatRight'
  BY StatStep
<1>4. CommentsSpec => []StatRight
  BY <1>3, InitStat, CommentsAlways, PTL DEF CommentsSpec
<1> QED
  BY <1>2, <1>4, CommentsAlways, PTL

(* A message about a question has gone to the author of the note, and one    *)
(* about an answer or a reply to whoever wrote the comment that it answers   *)
(* (NoteCommentService.createOne).                                           *)
THEOREM MailsGoWhereTheyShould == CommentsSpec => []MailsAddressed
<1>1. CommentsInv => MailsAddressed
  BY DEF CommentsInv
<1> QED
  BY <1>1, CommentsAlways, PTL

(* However creations and deletions overlap, what a comment is about and who  *)
(* wrote it never changes, no insertion takes the row of another comment,    *)
(* and one that is deleted is not revived (NoteCommentService.createOne,     *)
(* deleteOne).                                                               *)
THEOREM CommentsSettle == CommentsSpec => [][Settled(row, row')]_commentVars
<1>1. ASSUME CommentsInv, CommentsNext
      PROVE  Settled(row, row')
  <2>1. CASE UNCHANGED row
    BY <1>1, <2>1 DEF CommentsInv, CommentsTypeOK, Settled, SameAim
  <2>2. ASSUME NEW r \in CommentRequests, Insert(r)
        PROVE  Settled(row, row')
    BY <1>1, <2>2, InsertInserts DEF Inserts, Settled, KnownIn, LiveIn
  <2>3. ASSUME NEW r \in CommentRequests, Delete(r)
        PROVE  Settled(row, row')
    <3>1. Deletes(creq[r].comment)
      BY <1>1, <2>3, DeleteDeletes
    <3> QED
      BY <3>1 DEF Deletes, Settled, KnownIn, LiveIn
  <2>4. UNCHANGED row \/ \E r \in CommentRequests : Insert(r) \/ Delete(r)
    BY <1>1 DEF CommentsNext, CommentStep, BeginCreate, BeginDelete, BeginOther, Message,
                   FindStat, ReadStat, LoadStat, AddStat, CommentFails, BeginSync, EndSync,
                   SyncLoses
  <2> QED
    BY <2>1, <2>2, <2>3, <2>4
<1>2. CommentsInv /\ [CommentsNext]_commentVars => [Settled(row, row')]_commentVars
  BY <1>1
<1> QED
  BY <1>2, CommentsAlways, PTL DEF CommentsSpec

--------------------------------------------------------------------------------
(* Migrations *)

Upgraded == {"createPublics", "names", "likes", "done"}

Before(n) == { s \in live : Position(s) <= n }

(* The regions count the saves of S. *)
CountsAre(S) ==
  \A u \in Owners, c \in Codes : regions[u][c] = Cardinality(SavesAt(S, u, c))

MigrationTyped ==
  /\ stage \in {"createRegions", "codes", "counts", "failed"} \cup Upgraded
  /\ live \subseteq Saves
  /\ regions \in [Owners -> [Codes -> Nat]]
  /\ skip \in Nat /\ left \in Nat

NamesRight == \A s \in Saves : names[PointOf[s]] \in Saves /\ PointOf[names[PointOf[s]]] = PointOf[s]

(* The counts are those of the pages that were read, of all saves once the *)
(* migration is recorded, and none when it is to be run from its start.    *)
MigrationRight ==
  /\ MigrationTyped
  /\ stage \in {"createRegions", "codes", "counts"} => "counts" \notin made
  /\ stage \in Upgraded => "counts" \in made
  /\ "counts" \in made => CountsAre(live)
  /\ "counts" \notin made /\ stage # "counts" => regions = NoCounts
  /\ stage = "counts" => skip + left = Cardinality(live) /\ CountsAre(Before(skip))
  /\ stage # "done" => likes = [u \in Owners |-> 0]
  /\ stage = "done" => \A u \in Owners : likes[u] = SumOfLikes(u)
  /\ stage \in {"likes", "done"} => NamesRight

(* The saves of any set of saves are finitely many. *)
LEMMA SavesAtFinite ==
  ASSUME NEW S, S \subseteq Saves, NEW u, NEW c
  PROVE  /\ IsFiniteSet(SavesAt(S, u, c)) /\ Cardinality(SavesAt(S, u, c)) \in Nat
         /\ SavesAt({}, u, c) = {}
<1>1. SavesAt(S, u, c) \subseteq Saves /\ SavesAt({}, u, c) = {}
  BY DEF SavesAt
<1> QED
  BY <1>1, MigrationConstants, FS_Subset, FS_CardinalityType

(* A save has a position from one to the number of saves. *)
LEMMA PositionFacts ==
  ASSUME MigrationTyped, NEW s \in live
  PROVE  /\ IsFiniteSet(live) /\ Cardinality(live) \in Nat
         /\ Position(s) \in 1..Cardinality(live)
<1> DEFINE B == { x \in live : x <= s }
<1>1. IsFiniteSet(live) /\ Cardinality(live) \in Nat
  BY MigrationConstants, FS_Subset, FS_CardinalityType DEF MigrationTyped
<1>2. B \subseteq live /\ s \in B
  BY MigrationConstants DEF MigrationTyped
<1>3. IsFiniteSet(B) /\ Cardinality(B) <= Cardinality(live) /\ Cardinality(B) \in Nat
  <2> HIDE DEF B
  <2> QED
    BY <1>1, <1>2, FS_Subset, FS_CardinalityType
<1>4. Cardinality(B) # 0
  <2> HIDE DEF B
  <2> QED
    BY <1>2, <1>3, FS_EmptySet
<1> QED
  BY <1>1, <1>3, <1>4 DEF Position

(* Whoever has read nothing has counted nothing, and whoever has read as *)
(* many saves as there are has read them all.                            *)
LEMMA FirstAndLast ==
  ASSUME MigrationTyped
  PROVE  Before(0) = {} /\ Before(Cardinality(live)) = live
<1>1. \A s \in live : Position(s) \in 1..Cardinality(live) /\ Cardinality(live) \in Nat
  BY PositionFacts
<1> QED
  BY <1>1 DEF Before

(* A page adds the saves after those before it, each once. *)
LEMMA PageCounts ==
  ASSUME MigrationTyped, NEW take \in Nat, NEW u \in Owners, NEW c \in Codes
  PROVE  Cardinality(SavesAt(Before(skip + take), u, c)) =
           Cardinality(SavesAt(Before(skip), u, c)) +
           Cardinality(SavesAt(Page(skip, take), u, c))
<1> DEFINE A == SavesAt(Before(skip), u, c)
<1> DEFINE B == SavesAt(Page(skip, take), u, c)
<1>1. \A s \in live : Position(s) \in Nat
  BY PositionFacts
<1>2. /\ Before(skip + take) = Before(skip) \cup Page(skip, take)
      /\ Before(skip) \cap Page(skip, take) = {}
  BY <1>1 DEF Before, Page, MigrationTyped
<1>3. SavesAt(Before(skip + take), u, c) = A \cup B /\ A \cap B = {}
  BY <1>2 DEF SavesAt
<1>4. Before(skip) \subseteq Saves /\ Page(skip, take) \subseteq Saves
  BY DEF Before, Page, MigrationTyped
<1>5. IsFiniteSet(A) /\ IsFiniteSet(B) /\ Cardinality(A) \in Nat /\ Cardinality(B) \in Nat
  BY <1>4, SavesAtFinite
<1> HIDE DEF A, B
<1>6. Cardinality(A \cup B) = Cardinality(A) + Cardinality(B) - Cardinality(A \cap B)
  BY <1>5, FS_Union
<1>7. Cardinality(A \cap B) = 0
  BY <1>3, FS_EmptySet
<1>8. Cardinality(A \cup B) = Cardinality(A) + Cardinality(B)
  BY <1>5, <1>6, <1>7
<1> QED
  BY <1>3, <1>8 DEF A, B

(* The likes of a user are a number. *)
LEMMA LikesAreNat ==
  ASSUME MigrationTyped, NEW u \in Owners
  PROVE  SumOfLikes(u) \in Nat
<1> DEFINE S == { s \in live : owner[s] = u }
<1>1. IsFiniteSet(S) /\ \A s \in S : LikesOf[s] \in Nat
  BY MigrationConstants, FS_Subset DEF MigrationTyped
<1>2. SumOfLikes(u) = Sum(LikesOf, S)
  BY DEF SumOfLikes, Sum
<1> QED
  BY <1>1, <1>2, SumOfNats

(* No save is counted at the start. *)
LEMMA NothingCounted ==
  ASSUME regions = NoCounts
  PROVE  CountsAre({})
<1>1. \A u, c : SavesAt({}, u, c) = {}
  BY DEF SavesAt
<1> QED
  BY <1>1, FS_EmptySet DEF CountsAre, NoCounts

(* The rows before a migration *)
LEMMA MigrationStarts == MigrationInit => MigrationRight
BY MigrationConstants DEF MigrationInit, MigrationRight, MigrationTyped, NoCounts, Upgraded

(* What is said of rows and of counts stays true when neither changes. *)
LEMMA CountsStay ==
  ASSUME UNCHANGED <<saveRows, regions>>
  PROVE  /\ NoCounts' = NoCounts
         /\ CountsAre(live)' <=> CountsAre(live)
         /\ CountsAre(Before(skip))' <=> CountsAre({ s \in live : Position(s) <= skip' })
         /\ \A u \in Owners : SumOfLikes(u)' = SumOfLikes(u)
<1>1. live' = live /\ owner' = owner /\ regions' = regions
  BY DEF saveRows
<1>2. ASSUME NEW u \in Owners
      PROVE  SumOfLikes(u)' = SumOfLikes(u)
  BY <1>1 DEF SumOfLikes, MapThenSumSet, MapThenFoldSet
<1>3. NoCounts' = NoCounts
  BY DEF NoCounts
<1>4. CountsAre(live)' <=> CountsAre(live)
  BY <1>1 DEF CountsAre, SavesAt
<1>5. CountsAre(Before(skip))' <=> CountsAre({ s \in live : Position(s) <= skip' })
  BY <1>1 DEF CountsAre, SavesAt, Before, Position
<1> QED
  BY <1>2, <1>3, <1>4, <1>5

(* The next page is counted, and after the last one all saves are. *)
LEMMA CountPageRight == MigrationRight /\ CountPage => MigrationRight'
<1> SUFFICES ASSUME MigrationRight, CountPage
             PROVE  MigrationRight'
  OBVIOUS
<1> DEFINE take == IF left > PageSize THEN PageSize ELSE left
<1>1. /\ MigrationTyped /\ stage = "counts" /\ "counts" \notin made
      /\ skip + left = Cardinality(live) /\ CountsAre(Before(skip))
      /\ likes = [u \in Owners |-> 0]
  BY DEF MigrationRight, CountPage
<1>2. take \in Nat /\ skip \in Nat /\ left \in Nat /\ left - take \in Nat
  BY <1>1, MigrationConstants DEF MigrationTyped
<1>3. /\ regions' = IncrementPCP(Page(skip, take))
      /\ skip' = skip + take /\ left' = left - take
      /\ Counted /\ live' = live /\ owner' = owner /\ likes' = likes
  BY DEF CountPage, saveRows
<1> HIDE DEF take
<1>4. Page(skip, take) \subseteq Saves /\ Before(skip) \subseteq Saves
  BY <1>1 DEF Page, Before, MigrationTyped
<1>5. ASSUME NEW u \in Owners, NEW c \in Codes
      PROVE  /\ regions'[u][c] = Cardinality(SavesAt(Before(skip + take), u, c))
             /\ regions'[u][c] \in Nat
  <2>1. regions'[u][c] = regions[u][c] + Cardinality(SavesAt(Page(skip, take), u, c))
    BY <1>3 DEF IncrementPCP
  <2>2. regions[u][c] = Cardinality(SavesAt(Before(skip), u, c))
    BY <1>1 DEF CountsAre
  <2>3. /\ Cardinality(SavesAt(Page(skip, take), u, c)) \in Nat
        /\ Cardinality(SavesAt(Before(skip), u, c)) \in Nat
    BY <1>4, SavesAtFinite
  <2> QED
    BY <1>1, <1>2, <2>1, <2>2, <2>3, PageCounts
<1>6. regions' \in [Owners -> [Codes -> Nat]]
  BY <1>3, <1>5 DEF IncrementPCP
<1>7. CountsAre(Before(skip))'
  BY <1>3, <1>5 DEF CountsAre, Before, Position, SavesAt
<1>8. MigrationTyped'
  BY <1>1, <1>2, <1>3, <1>6 DEF MigrationTyped, Counted, Upgraded
<1>9. (skip + left = Cardinality(live))'
  BY <1>1, <1>2, <1>3
<1>10. left' = 0 => CountsAre(live)'
  <2> SUFFICES ASSUME left' = 0
               PROVE  CountsAre(live)'
    OBVIOUS
  <2>1. skip + take = Cardinality(live)
    BY <1>1, <1>2, <1>3
  <2>2. Before(skip + take) = live
    BY <1>1, <2>1, FirstAndLast
  <2> QED
    BY <1>3, <1>5, <2>2 DEF CountsAre, SavesAt
<1> QED
  BY <1>1, <1>3, <1>7, <1>8, <1>9, <1>10 DEF MigrationRight, Counted, Upgraded

(* The counts are started with none. *)
LEMMA StartCountsRight == MigrationRight /\ StartCounts => MigrationRight'
<1> SUFFICES ASSUME MigrationRight, StartCounts
             PROVE  MigrationRight'
  OBVIOUS
<1>1. /\ MigrationTyped /\ "counts" \notin made /\ regions = NoCounts
      /\ likes = [u \in Owners |-> 0]
  BY DEF MigrationRight, StartCounts
<1>2. /\ stage' = "counts" /\ skip' = 0 /\ left' = Cardinality(live)
      /\ UNCHANGED <<saveRows, regions>> /\ made' = made /\ likes' = likes
      /\ live' = live
  BY DEF StartCounts, saveRows
<1>3. Cardinality(live) \in Nat
  BY <1>1, MigrationConstants, FS_Subset, FS_CardinalityType DEF MigrationTyped
<1>4. MigrationTyped'
  BY <1>1, <1>2, <1>3 DEF MigrationTyped
<1>5. Before(0) = {} /\ CountsAre({})
  BY <1>1, FirstAndLast, NothingCounted
<1>6. CountsAre(Before(skip))'
  BY <1>2, <1>5, CountsStay DEF Before
<1> QED
  BY <1>1, <1>2, <1>3, <1>4, <1>6 DEF MigrationRight, Upgraded

(* A table is created, or the migration fails for it. *)
LEMMA CreateTablesRight == MigrationRight /\ CreateTables => MigrationRight'
<1> SUFFICES ASSUME MigrationRight, CreateTables
             PROVE  MigrationRight'
  OBVIOUS
<1>1. /\ UNCHANGED <<saveRows, regions>> /\ UNCHANGED <<live, regions, skip, left, likes>>
      /\ "counts" \in made' <=> "counts" \in made
  BY DEF CreateTables, saveRows, pages
<1>2. /\ CountsAre(live)' <=> CountsAre(live)
      /\ NoCounts' = NoCounts
  BY <1>1, CountsStay
<1>3. /\ stage \in {"createRegions", "createPublics"}
      /\ stage' \in {"failed", "codes", "names"}
      /\ stage' = "codes" => stage = "createRegions"
      /\ stage' = "names" => stage = "createPublics"
  BY DEF CreateTables
<1> QED
  BY <1>1, <1>2, <1>3 DEF MigrationRight, MigrationTyped, Upgraded

(* The points are named after their saves. *)
LEMMA NameRight == MigrationRight /\ Name => MigrationRight'
<1> SUFFICES ASSUME MigrationRight, Name
             PROVE  MigrationRight'
  OBVIOUS
<1>1. /\ UNCHANGED <<saveRows, regions>> /\ UNCHANGED <<live, regions, skip, left, likes, made>>
      /\ stage = "names" /\ stage' = "likes"
  BY DEF Name, saveRows, pages
<1>2. /\ CountsAre(live)' <=> CountsAre(live)
      /\ NoCounts' = NoCounts
  BY <1>1, CountsStay
<1>3. NamesRight'
  <2>1. ASSUME NEW s \in Saves
        PROVE  names'[PointOf[s]] \in { x \in Saves : PointOf[x] = PointOf[s] }
    <3>1. PointOf[s] \in Points /\ s \in { x \in Saves : PointOf[x] = PointOf[s] }
      BY MigrationConstants
    <3> QED
      BY <3>1 DEF Name
  <2> QED
    BY <2>1 DEF NamesRight
<1> QED
  BY <1>1, <1>2, <1>3 DEF MigrationRight, MigrationTyped, Upgraded

(* The likes are summed. *)
LEMMA LikesRight == MigrationRight /\ Likes => MigrationRight'
<1> SUFFICES ASSUME MigrationRight, Likes
             PROVE  MigrationRight'
  OBVIOUS
<1>1. /\ UNCHANGED <<saveRows, regions>> /\ UNCHANGED <<live, regions, skip, left, made, names>>
      /\ stage = "likes" /\ stage' = "done"
  BY DEF Likes, saveRows, pages
<1>2. /\ CountsAre(live)' <=> CountsAre(live)
      /\ NoCounts' = NoCounts
      /\ \A u \in Owners : SumOfLikes(u)' = SumOfLikes(u)
  BY <1>1, CountsStay
<1>3. ASSUME NEW u \in Owners
      PROVE  likes'[u] = SumOfLikes(u)
  <2>1. SumOfLikes(u) \in Nat /\ likes[u] = 0
    BY <1>1, LikesAreNat DEF MigrationRight
  <2>2. likes'[u] = IF SumOfLikes(u) > 0 THEN SumOfLikes(u) ELSE likes[u]
    BY DEF Likes
  <2> QED
    BY <2>1, <2>2
<1>4. NamesRight' <=> NamesRight
  BY <1>1 DEF NamesRight
<1> QED
  BY <1>1, <1>2, <1>3, <1>4 DEF MigrationRight, MigrationTyped, Upgraded

(* The counts are rolled back, or they are recorded and stay. *)
LEMMA FailRight == MigrationRight /\ Fail => MigrationRight'
<1> SUFFICES ASSUME MigrationRight, Fail
             PROVE  MigrationRight'
  OBVIOUS
<1>1. /\ UNCHANGED <<live, owner, skip, left, likes, made>>
      /\ stage # "done" /\ stage' = "failed"
      /\ regions' = IF stage = "counts" THEN NoCounts ELSE regions
  BY DEF Fail, saveRows
<1>2. NoCounts \in [Owners -> [Codes -> Nat]] /\ NoCounts' = NoCounts
  BY DEF NoCounts
<1>3. "counts" \in made => CountsAre(live)'
  BY <1>1 DEF MigrationRight, CountsAre, SavesAt
<1> QED
  BY <1>1, <1>2, <1>3 DEF MigrationRight, MigrationTyped, Upgraded

(* The migrations that are not recorded start again. *)
LEMMA RunAgainRight == MigrationRight /\ RunAgain => MigrationRight'
<1> SUFFICES ASSUME MigrationRight, RunAgain
             PROVE  MigrationRight'
  OBVIOUS
<1>1. /\ UNCHANGED <<saveRows, regions>> /\ UNCHANGED <<live, regions, skip, left, likes, made>>
      /\ stage = "failed"
      /\ stage' = IF "counts" \in made THEN "createPublics" ELSE "createRegions"
  BY DEF RunAgain, saveRows, pages
<1>2. /\ CountsAre(live)' <=> CountsAre(live)
      /\ NoCounts' = NoCounts
  BY <1>1, CountsStay
<1> QED
  BY <1>1, <1>2 DEF MigrationRight, MigrationTyped, Upgraded

(* The code of a point is found, or nothing happens. *)
LEMMA OthersRight ==
  MigrationRight /\ (UNCHANGED migrationVars \/ \E p \in Points : Locate(p)) => MigrationRight'
<1> SUFFICES ASSUME MigrationRight, UNCHANGED migrationVars \/ \E p \in Points : Locate(p)
             PROVE  MigrationRight'
  OBVIOUS
<1>1. UNCHANGED <<stage, live, owner, made, regions, skip, left, names, likes>>
  BY DEF migrationVars, Locate, saveRows, pages
<1>2. UNCHANGED <<saveRows, regions>>
  BY <1>1 DEF saveRows
<1>3. /\ CountsAre(live)' <=> CountsAre(live)
      /\ CountsAre(Before(skip))' <=> CountsAre(Before(skip))
      /\ NoCounts' = NoCounts
      /\ \A u \in Owners : SumOfLikes(u)' = SumOfLikes(u)
  BY <1>1, <1>2, CountsStay DEF Before
<1>4. NamesRight' <=> NamesRight
  BY <1>1 DEF NamesRight
<1> QED
  BY <1>1, <1>3, <1>4 DEF MigrationRight, MigrationTyped, Upgraded

(* Whatever the number of saves and the size of a page, and whatever        *)
(* statement fails (the loop of updatePointCounts in OptimizeMapShow, and   *)
(* SupportCreatorCenter): the regions of each user count each of its saves  *)
(* once when the first migration is through, and its likes and the names of *)
(* the points are right when both are.                                      *)
THEOREM UpgradesAreCounted == MigrationSpec => []MigrationCounts
<1>1. MigrationInit => MigrationRight
  BY MigrationStarts
<1>2. MigrationRight /\ [MigrationNext]_migrationVars => MigrationRight'
  BY CountPageRight, StartCountsRight, CreateTablesRight, NameRight, LikesRight,
     FailRight, RunAgainRight, OthersRight DEF MigrationNext
<1>3. MigrationRight => MigrationCounts
  <2> SUFFICES ASSUME MigrationRight
               PROVE  MigrationCounts
    OBVIOUS
  <2>1. stage \in Upgraded => CountsAre(live)
    BY DEF MigrationRight
  <2>2. stage = "done" => NamesRight /\ \A u \in Owners : likes[u] = SumOfLikes(u)
    BY DEF MigrationRight
  <2>3. NamesRight => \A s \in Saves : names[PointOf[s]] # Nameless
    BY MigrationConstants DEF NamesRight
  <2> QED
    BY <2>1, <2>2, <2>3 DEF MigrationCounts, Upgraded, CountsAre, NamesRight
<1> QED
  BY <1>1, <1>2, <1>3, PTL DEF MigrationSpec

(* What the statements have written, and the page that is read next *)
PagesRight ==
  /\ made \subseteq {"createRegions", "createPublics", "counts"}
  /\ coded \subseteq Points
  /\ skip + left <= Cardinality(Saves)

(* Every statement keeps to the pages that there are. *)
LEMMA PagesStep ==
  ASSUME MigrationRight, PagesRight, [MigrationNext]_migrationVars
  PROVE  PagesRight'
<1>1. MigrationTyped
  BY DEF MigrationRight
<1>2. Cardinality(Saves) \in Nat /\ Cardinality(live) \in Nat /\ Cardinality(live) <= Cardinality(Saves)
  BY <1>1, MigrationConstants, FS_Subset, FS_CardinalityType DEF MigrationTyped
<1>3. CASE CountPage
  <2>1. skip' + left' = skip + left
    BY <1>1, <1>3, MigrationConstants DEF CountPage, MigrationTyped
  <2> QED
    BY <1>3, <2>1 DEF CountPage, Counted, PagesRight
<1>4. CASE StartCounts
  BY <1>2, <1>4 DEF StartCounts, PagesRight
<1>5. CASE CreateTables
  BY <1>5 DEF CreateTables, pages, PagesRight
<1>6. CASE \E p \in Points : Locate(p)
  BY <1>6 DEF Locate, pages, PagesRight
<1>7. CASE Name \/ Likes \/ Fail \/ RunAgain \/ UNCHANGED migrationVars
  BY <1>7 DEF Name, Likes, Fail, RunAgain, migrationVars, pages, PagesRight
<1> QED
  BY <1>3, <1>4, <1>5, <1>6, <1>7 DEF MigrationNext

(* Migrations count no save twice, and read no page after the last one. *)
THEOREM UpgradesTyped == MigrationSpec => []MigrationsTypeOK
<1>1. MigrationInit => PagesRight
  BY MigrationConstants, FS_CardinalityType DEF MigrationInit, PagesRight
<1>2. MigrationRight /\ PagesRight /\ [MigrationNext]_migrationVars => (MigrationRight /\ PagesRight)'
  BY CountPageRight, StartCountsRight, CreateTablesRight, NameRight, LikesRight,
     FailRight, RunAgainRight, OthersRight, PagesStep DEF MigrationNext
<1>3. ASSUME MigrationRight, NEW u \in Owners, NEW c \in Codes
      PROVE  regions[u][c] \in 0..Cardinality(Saves)
  <2>1. MigrationTyped /\ Cardinality(Saves) \in Nat
    BY <1>3, MigrationConstants, FS_CardinalityType DEF MigrationRight
  <2>2. CASE regions = NoCounts
    BY <2>1, <2>2 DEF NoCounts
  <2>3. ASSUME NEW S, S \subseteq live, CountsAre(S)
        PROVE  regions[u][c] \in 0..Cardinality(Saves)
    <3>1. SavesAt(S, u, c) \subseteq Saves
      BY <2>1, <2>3 DEF SavesAt, MigrationTyped
    <3>2. /\ Cardinality(SavesAt(S, u, c)) \in Nat
          /\ Cardinality(SavesAt(S, u, c)) <= Cardinality(Saves)
      BY <3>1, MigrationConstants, FS_Subset, FS_CardinalityType
    <3> QED
      BY <2>1, <2>3, <3>2 DEF CountsAre
  <2>4. "counts" \in made \/ stage = "counts" \/ regions = NoCounts
    BY <1>3 DEF MigrationRight
  <2>5. CASE "counts" \in made
    BY <1>3, <2>3, <2>5 DEF MigrationRight
  <2>6. CASE stage = "counts"
    BY <1>3, <2>3, <2>6 DEF MigrationRight, Before
  <2> QED
    BY <2>2, <2>4, <2>5, <2>6
<1>4. MigrationRight /\ PagesRight => MigrationsTypeOK
  BY <1>3 DEF PagesRight, MigrationsTypeOK
<1> QED
  BY MigrationStarts, <1>1, <1>2, <1>4, PTL DEF MigrationSpec

--------------------------------------------------------------------------------
(* Services *)

(* A behaviour of all services is one of each: what is proved of each of     *)
(* them is true of it.                                                       *)
LEMMA ServicesAreEach ==
  ServicesSpec => Spec /\ SavesSpec /\ CommentsSpec /\ MigrationSpec
<1>1. ServicesInit => Init /\ SavesInit /\ CommentsInit /\ MigrationInit
  BY DEF ServicesInit
<1>2. [ServicesNext]_servicesVars =>
        /\ [Next]_vars /\ [SavesNext]_saveVars
        /\ [CommentsNext]_commentVars /\ [MigrationNext]_migrationVars
  BY DEF ServicesNext, servicesVars, Counting, SavingMaps, Commenting, Upgrading
<1> QED
  BY <1>1, <1>2, PTL DEF ServicesSpec, Spec, SavesSpec, CommentsSpec, MigrationSpec

(* The rows, numbers and messages of the services are well typed, whatever   *)
(* overlaps: saveMaps stays a natural number, requests are about rows that   *)
(* there are or were, and migrations count no save twice.                    *)
THEOREM ServicesTyped == ServicesSpec => []ServicesTypeOK
<1>1. SavesSpec => []SavesTypeOK
  <2>1. SavesInv => SavesTypeOK
    <3>1. Doing \subseteq [at : SaveSteps, row : SavedRow \cup {Nothing}]
      BY DEF Doing, NoSave, SaveSteps
    <3> QED
      BY <3>1 DEF SavesInv, SavesTyped, SavesTypeOK
  <2>2. SavesInv /\ [SavesNext]_saveVars => SavesInv'
    BY NextSaves
  <2> QED
    BY InitSaves, <2>1, <2>2, PTL DEF SavesSpec
<1>2. CommentsSpec => []CommentsTypeOK
  <2>1. CommentsInv => CommentsTypeOK
    BY DEF CommentsInv
  <2> QED
    BY CommentsAlways, <2>1, PTL
<1>3. TypeOK /\ SavesTypeOK /\ CommentsTypeOK /\ MigrationsTypeOK <=> ServicesTypeOK
  BY DEF ServicesTypeOK
<1> QED
  BY ServicesAreEach, StatTyped, <1>1, <1>2, UpgradesTyped, <1>3, PTL
================================================================================
