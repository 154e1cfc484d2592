----------------------------- MODULE SharedProofs ------------------------------
(***************************************************************************)
(* Proofs about what the worker processes share, for any number of them,   *)
(* of requests, keys, rows, users and things: the keys of the locks        *)
(* (RequestLock), the copies of rows in redis (RowCaches), the token of the*)
(* WeChat interfaces (MasterWorkers), the messages of the system           *)
(* (SystemMails), and the counts of visits and shares (Tallies).           *)
(***************************************************************************)
EXTENDS SharedState, FiniteSums

--------------------------------------------------------------------------------
(* RequestLock *)
(* KeysHaveOwners says what a key is; that it is inductive needs the types. *)
IInv == TypeOK /\ KeysHaveOwners

(* There are no keys at the start. *)
LEMMA InitIInv == Init => IInv
BY LockConstants DEF Init, IInv, TypeOK, KeysHaveOwners

(* Every step of the protocol preserves the invariant. *)
LEMMA NextIInv == IInv /\ [Next]_vars => IInv'
<1> SUFFICES ASSUME IInv, [Next]_vars
             PROVE  IInv'
  OBVIOUS
<1> USE LockConstants DEF IInv, TypeOK, KeysHaveOwners, Goto
<1>1. ASSUME NEW r \in Requests, Get(r)
      PROVE  IInv'
  BY <1>1 DEF Get
<1>2. ASSUME NEW r \in Requests, SetNX(r)
      PROVE  IInv'
  BY <1>2 DEF SetNX
<1>3. ASSUME NEW r \in Requests, Body(r)
      PROVE  IInv'
  BY <1>3 DEF Body
<1>4. ASSUME NEW r \in Requests, Unlock(r)
      PROVE  IInv'
  BY <1>4 DEF Unlock
<1>5. ASSUME NEW r \in Requests, Inserted(r)
      PROVE  IInv'
  BY <1>5 DEF Inserted
<1>6. ASSUME NEW k \in Keys, Expire(k)
      PROVE  IInv'
  BY <1>6 DEF Expire
<1>7. ASSUME NEW w \in Workers, Crash(w)
      PROVE  IInv'
  BY <1>7 DEF Crash
<1>8. CASE UNCHANGED vars
  BY <1>8 DEF vars
<1> QED
  BY <1>1, <1>2, <1>3, <1>4, <1>5, <1>6, <1>7, <1>8 DEF Next, Handler

(* A key in redis was written by a request that has not reached its DEL, or *)
(* by one whose worker died: RedisService.unlock in a finally leaves none.  *)
THEOREM KeysOwned == Spec => []KeysHaveOwners
<1>1. IInv => KeysHaveOwners
  BY DEF IInv
<1> QED
  BY InitIInv, NextIInv, <1>1, PTL DEF Spec

--------------------------------------------------------------------------------
(* RowCaches *)

CallSteps == {"idle", "get", "read", "cache", "change", "commit", "uncache"}

(* The operations that come to a step *)
OpsAt ==
  [get |-> {"read"}, read |-> {"read", "updateNote"}, cache |-> {"read", "updateNote"},
   change |-> InTransaction, uncache |-> {"updateUser", "transfer"} \cup InTransaction,
   commit |-> {"updateUser", "login", "updateNote", "transfer"} \cup InTransaction]

Call == [op : {"none", "read", "updateUser", "login", "updateNote", "transfer"} \cup InTransaction,
         of : Rows \cup {Absent}, at : CallSteps, val : Nat \cup {Absent}, left : Seq(Rows)]

(* The rows whose copies are still to be dropped by c *)
ToDrop(c) == { c.left[i] : i \in DOMAIN c.left }

WellFormed(c) ==
  c.at # "idle" =>
    /\ c.of \in Rows
    /\ c.op \in OpsAt[c.at]
    /\ c.op \in {"updateUser", "login"} => c.of \in UserRows
    /\ c.op \in {"updateNote"} \cup InTransaction => c.of \in NoteRows
    /\ c.op = "transfer" => PublicRows # <<>>
    /\ c.at = "uncache" => c.left # <<>> /\ ToDrop(c) \subseteq RowsOf(c)

CachesTyped ==
  /\ row \in [Rows -> Nat \cup {Absent}] /\ copy \in [Rows -> Nat \cup {Absent}]
  /\ \A k \in Rows \ NoteRows : row[k] \in Nat
  /\ mixed \in [Rows -> BOOLEAN]
  /\ kind \in DOMAIN OfKind
  /\ call \in [Callers -> Call]
  /\ \A r \in Callers : WellFormed(call[r])

(* What a request that is alone with row k knows of its copy: until it has   *)
(* changed the row the copy is fresh, what it is about to write is the row,  *)
(* and a copy that it has dropped stays away.                                *)
Attends(c, k) ==
  /\ c.op = "read" \/ c.at = "change" => Fresh(k)
  /\ c.at = "cache" => c.val = row[k]
  /\ c.at = "read" /\ row[k] = Absent => copy[k] = Absent
  /\ c.at = "commit" => IF c.op \in InTransaction THEN copy[k] = Absent ELSE Fresh(k)
  /\ c.at = "uncache" => k \in ToDrop(c) \/ copy[k] = Absent

CopyRight(k) ==
  ~mixed[k] =>
    /\ \A q, r \in Busy(k) : q = r
    /\ Busy(k) = {} => Fresh(k)
    /\ \A r \in Busy(k) : Attends(call[r], k)

CopiesRight == CachesTyped /\ \A k \in Rows : CopyRight(k)

(* There are no copies at the start. *)
LEMMA InitCopies == CacheInit => CopiesRight
<1> SUFFICES ASSUME CacheInit
             PROVE  CopiesRight
  OBVIOUS
<1> USE DEF CacheInit
<1>1. Idle \in Call
  BY DEF Idle, Call, CallSteps
<1>2. CachesTyped
  BY <1>1 DEF CachesTyped, WellFormed, Idle
<1>3. \A k \in Rows : Busy(k) = {} /\ Fresh(k)
  BY DEF Busy, Idle, Fresh
<1> QED
  BY <1>2, <1>3 DEF CopiesRight, CopyRight

(* CacheFresh follows. *)
LEMMA CopiesRightFresh == CopiesRight => CacheFresh
<1> SUFFICES ASSUME CopiesRight, NEW k \in Rows, ~mixed[k], ~Fresh(k)
             PROVE  \E r \in Busy(k) : call[r].op # "read" /\ call[r].at \in {"uncache", "read", "cache"}
  BY DEF CacheFresh
<1>1. CopyRight(k)
  BY DEF CopiesRight
<1>2. PICK r \in Busy(k) : Attends(call[r], k)
  BY <1>1 DEF CopyRight
<1>3. r \in Callers /\ call[r] \in Call /\ WellFormed(call[r]) /\ call[r].at # "idle"
  BY <1>2 DEF Busy, CopiesRight, CachesTyped
<1> QED
  BY <1>2, <1>3 DEF Attends, WellFormed, Call, CallSteps, OpsAt, Fresh

(* What a statement of request r may change: its rows and copies, and where  *)
(* the request is                                                           *)
Moves(r) ==
  /\ call[r].at # "idle"
  /\ UNCHANGED <<mixed, kind>>
  /\ \A k \in Rows \ RowsOf(call[r]) : row'[k] = row[k] /\ copy'[k] = copy[k]
  /\ \A q \in Callers \ {r} : call'[q] = call[q]
  /\ call'[r] = Idle \/ (call'[r].op = call[r].op /\ call'[r].of = call[r].of
                         /\ call'[r].at # "idle")

(* It preserves the invariant if it does so for a row that only r is about. *)
LEMMA MovesRight ==
  ASSUME CopiesRight, NEW r \in Callers, Moves(r), CachesTyped',
         \A k \in RowsOf(call[r]) : Attends(call[r], k) =>
           IF call'[r] = Idle THEN Fresh(k)' ELSE Attends(call[r], k)'
  PROVE  CopiesRight'
<1> SUFFICES ASSUME NEW k \in Rows, ~mixed[k]
             PROVE  CopyRight(k)'
  BY DEF CopiesRight, Moves, CopyRight
<1>1. CopyRight(k) /\ ~mixed'[k] /\ Idle.at = "idle"
  BY DEF CopiesRight, Moves, Idle
<1>2. CASE k \notin RowsOf(call[r])
  <2>1. Busy(k)' = Busy(k)
    BY <1>1, <1>2 DEF Busy, Moves, RowsOf
  <2>2. r \notin Busy(k) /\ Fresh(k)' = Fresh(k)
    BY <1>2 DEF Busy, Moves, Fresh
  <2>3. \A q \in Busy(k) : Attends(call[q], k)' = Attends(call[q], k)
    BY <1>2, <2>2 DEF Attends, Busy, Moves, Fresh
  <2> QED
    BY <1>1, <2>1, <2>2, <2>3 DEF CopyRight
<1>3. CASE k \in RowsOf(call[r])
  <2>1. Busy(k) = {r} /\ Attends(call[r], k)
    BY <1>1, <1>3 DEF CopyRight, Busy, Moves
  <2>2. CASE call'[r] = Idle
    <3>1. Busy(k)' = {}
      BY <1>1, <2>1, <2>2 DEF Busy, Moves
    <3> QED
      BY <1>3, <2>1, <2>2, <3>1 DEF CopyRight
  <2>3. CASE call'[r] # Idle
    <3>1. Busy(k)' = {r}
      BY <1>1, <2>1, <2>3, <1>3 DEF Busy, Moves, RowsOf
    <3> QED
      BY <1>3, <2>1, <2>3, <3>1 DEF CopyRight
  <2> QED
    BY <2>2, <2>3
<1> QED
  BY <1>2, <1>3

(* What is known of the request that takes a step *)
LEMMA CallFacts ==
  ASSUME CopiesRight, NEW r \in Callers, call[r].at # "idle"
  PROVE  /\ call[r].of \in Rows /\ call[r].op \in OpsAt[call[r].at]
         /\ call[r].op # "none" /\ call[r] \in Call
         /\ RowsOf(call[r]) \subseteq Rows
         /\ call[r].op # "transfer" => RowsOf(call[r]) = {call[r].of}
BY DEF CopiesRight, CachesTyped, WellFormed, RowsOf, Rows, Call, CallSteps, OpsAt, InTransaction

(* A call that ends leaves the others as they are. *)
LEMMA Ending ==
  ASSUME CopiesRight, NEW r \in Callers, Ended(r)
  PROVE  /\ call' \in [Callers -> Call] /\ \A q \in Callers : WellFormed(call[q])'
         /\ call'[r] = Idle /\ \A q \in Callers \ {r} : call'[q] = call[q]
<1>1. Idle \in Call /\ Idle.at = "idle"
  BY DEF Idle, Call, CallSteps
<1>2. call' = [call EXCEPT ![r] = Idle] /\ call \in [Callers -> Call]
  BY DEF Ended, CopiesRight, CachesTyped
<1>3. \A q \in Callers : WellFormed(call[q])
  BY DEF CopiesRight, CachesTyped
<1> QED
  BY <1>1, <1>2, <1>3 DEF WellFormed

(* A request goes on with the same row. *)
ProceedsTo(r, at, val, left) ==
  call' = [call EXCEPT ![r] = [call[r] EXCEPT !.at = at, !.val = val, !.left = left]]

MayProceed(r, at, val, left) ==
  /\ at \in CallSteps \ {"idle"} /\ call[r].op \in OpsAt[at]
  /\ val \in Nat \cup {Absent} /\ left \in Seq(Rows)
  /\ at = "uncache" => left # <<>> /\ \A i \in DOMAIN left : left[i] \in RowsOf(call[r])

(* A call that proceeds keeps what it is for, and leaves the others. *)
LEMMA Proceeding ==
  ASSUME CopiesRight, NEW r \in Callers, NEW at, NEW val, NEW left, call[r].at # "idle",
         MayProceed(r, at, val, left), ProceedsTo(r, at, val, left)
  PROVE  /\ call' \in [Callers -> Call] /\ \A q \in Callers : WellFormed(call[q])'
         /\ \A q \in Callers \ {r} : call'[q] = call[q]
         /\ call'[r].op = call[r].op /\ call'[r].of = call[r].of
         /\ call'[r].at = at /\ call'[r].val = val /\ call'[r].left = left
         /\ call'[r] # Idle
<1>1. call[r] \in Call /\ call \in [Callers -> Call] /\ Idle.at = "idle"
  BY DEF CopiesRight, CachesTyped, Idle
<1> DEFINE c == [call[r] EXCEPT !.at = at, !.val = val, !.left = left]
<1>2. /\ c \in Call /\ c.op = call[r].op /\ c.of = call[r].of /\ c.at = at
      /\ c.val = val /\ c.left = left
  BY <1>1 DEF Call, MayProceed
<1>3. call'[r] = c /\ \A q \in Callers \ {r} : call'[q] = call[q]
  BY <1>1 DEF ProceedsTo
<1>4. WellFormed(c)
  BY <1>2 DEF WellFormed, CopiesRight, CachesTyped, ToDrop, RowsOf, MayProceed
<1>5. \A q \in Callers : WellFormed(call[q])'
  BY <1>3, <1>4 DEF WellFormed, CopiesRight, CachesTyped
<1>6. call' \in [Callers -> Call]
  BY <1>1, <1>2 DEF ProceedsTo
<1> QED
  BY <1>1, <1>2, <1>3, <1>5, <1>6 DEF MayProceed

(* A request that reads a row, or its copy, keeps the copies right. *)
LEMMA ReadsRight ==
  ASSUME CopiesRight, NEW r \in Callers, NEW k \in Rows, call[r].of = k,
         GetByCache(r) \/ ReadRow(r) \/ Cache(r)
  PROVE  CopiesRight'
<1>1. /\ call[r].at # "idle" /\ call[r].op \in {"read", "updateNote"}
      /\ RowsOf(call[r]) = {k} /\ call[r] \in Call
      /\ call[r].at = "get" => call[r].op = "read"
  BY CallFacts DEF GetByCache, ReadRow, Cache, OpsAt
<1>2. /\ row \in [Rows -> Nat \cup {Absent}] /\ copy \in [Rows -> Nat \cup {Absent}]
      /\ call \in [Callers -> Call] /\ call[r].left \in Seq(Rows) /\ call[r].val \in Nat \cup {Absent}
  BY <1>1 DEF CopiesRight, CachesTyped, Call
<1>3. CASE GetByCache(r)
  <2>1. CASE copy[k] # Absent
    <3>1. Moves(r) /\ CachesTyped' /\ call'[r] = Idle
      BY <1>3, <2>1, <1>1, Ending DEF GetByCache, Moves, CopiesRight, CachesTyped
    <3>2. Attends(call[r], k) => Fresh(k)'
      BY <1>3, <1>1 DEF GetByCache, Attends, Fresh
    <3> QED
      BY <1>1, <3>1, <3>2, MovesRight
  <2>2. CASE copy[k] = Absent
    <3>1. ProceedsTo(r, "read", call[r].val, call[r].left)
      BY <1>1, <1>2, <1>3, <2>2 DEF ProceedsTo, GetByCache, Proceed, Call
    <3>2. MayProceed(r, "read", call[r].val, call[r].left)
      BY <1>1, <1>2 DEF OpsAt, MayProceed, CallSteps
    <3>3. Moves(r) /\ CachesTyped' /\ call'[r] # Idle /\ call'[r].at = "read" /\ call'[r].op = call[r].op
      BY <1>2, <1>3, <1>1, <3>1, <3>2, Proceeding DEF GetByCache, Moves, CopiesRight, CachesTyped, CallSteps
    <3>4. Attends(call[r], k) => Attends(call[r], k)'
      BY <1>3, <1>1, <2>2, <3>3 DEF GetByCache, Attends, Fresh
    <3> QED
      BY <1>1, <3>3, <3>4, MovesRight
  <2> QED
    BY <2>1, <2>2
<1>4. CASE ReadRow(r)
  <2>1. CASE row[k] = Absent
    <3>1. Moves(r) /\ CachesTyped' /\ call'[r] = Idle
      BY <1>4, <2>1, <1>1, Ending DEF ReadRow, Moves, CopiesRight, CachesTyped
    <3>2. Attends(call[r], k) => Fresh(k)'
      BY <1>4, <1>1, <2>1 DEF ReadRow, Attends, Fresh
    <3> QED
      BY <1>1, <3>1, <3>2, MovesRight
  <2>2. CASE row[k] # Absent
    <3>1. ProceedsTo(r, "cache", row[k], call[r].left)
      BY <1>1, <1>2, <1>4, <2>2 DEF ProceedsTo, ReadRow, Call
    <3>2. MayProceed(r, "cache", row[k], call[r].left)
      BY <1>1, <1>2 DEF OpsAt, MayProceed, CallSteps
    <3>3. /\ call' \in [Callers -> Call] /\ \A q \in Callers : WellFormed(call[q])'
          /\ \A q \in Callers \ {r} : call'[q] = call[q]
          /\ call'[r] # Idle /\ call'[r].at = "cache" /\ call'[r].val = row[k]
          /\ call'[r].op = call[r].op /\ call'[r].of = k
      BY <1>1, <1>2, <3>1, <3>2, Proceeding
    <3>5. Moves(r) /\ CachesTyped'
      BY <1>4, <1>1, <2>2, <3>3 DEF ReadRow, Moves, CopiesRight, CachesTyped
    <3>4. Attends(call[r], k) => Attends(call[r], k)'
      BY <1>4, <1>1, <2>2, <3>3 DEF ReadRow, Attends, Fresh
    <3> QED
      BY <1>1, <3>3, <3>4, <3>5, MovesRight
  <2> QED
    BY <2>1, <2>2
<1>5. CASE Cache(r)
  <2>1. copy' = [copy EXCEPT ![k] = call[r].val] /\ call[r].val \in Nat \cup {Absent}
    BY <1>5, <1>2 DEF Cache
  <2>2. Moves(r) /\ CachesTyped' /\ call'[r] = Idle
    BY <1>5, <1>1, <1>2, <2>1, Ending DEF Cache, Moves, CopiesRight, CachesTyped
  <2>3. Attends(call[r], k) => Fresh(k)'
    BY <1>5, <1>1, <1>2, <2>1 DEF Cache, Attends, Fresh
  <2> QED
    BY <1>1, <2>2, <2>3, MovesRight
<1> QED
  BY <1>3, <1>4, <1>5

(* A change commits: the copy is dropped afterwards, or it was before, or    *)
(* the row is read again, or nobody is left to say that it is fresh.         *)
LEMMA CommitsRight ==
  ASSUME CopiesRight, NEW r \in Callers, NEW k \in Rows, call[r].of = k,
         CommitThenUncache(r) \/ CommitThenRead(r) \/ CommitDelete(r) \/ CommitTransfer(r)
  PROVE  CopiesRight'
<1>1. /\ call[r].at = "commit" /\ call[r] \in Call
      /\ RowsOf(call[r]) \subseteq Rows
      /\ call[r].op # "transfer" => RowsOf(call[r]) = {k}
  BY CallFacts DEF CommitThenUncache, CommitThenRead, CommitDelete, CommitTransfer
<1>2. /\ row \in [Rows -> Nat \cup {Absent}] /\ copy \in [Rows -> Nat \cup {Absent}]
      /\ call \in [Callers -> Call] /\ call[r].left \in Seq(Rows) /\ call[r].val \in Nat \cup {Absent}
  BY <1>1 DEF CopiesRight, CachesTyped, Call
<1>4. CASE CommitThenRead(r)
  <2>1. row' = [row EXCEPT ![k] = IF @ = Absent THEN Absent ELSE @ + 1] /\ call[r].op = "updateNote"
    BY <1>4 DEF CommitThenRead
  <2>2. row' \in [Rows -> Nat \cup {Absent}] /\ \A j \in Rows \ NoteRows : row'[j] \in Nat
    BY <1>2, <2>1 DEF CopiesRight, CachesTyped
  <2>3. ProceedsTo(r, "read", call[r].val, call[r].left)
    BY <1>1, <1>2, <1>4 DEF ProceedsTo, CommitThenRead, Proceed, Call
  <2>4. MayProceed(r, "read", call[r].val, call[r].left)
    BY <2>1, <1>2 DEF OpsAt, MayProceed, CallSteps
  <2>5. /\ call' \in [Callers -> Call] /\ \A q \in Callers : WellFormed(call[q])'
        /\ \A q \in Callers \ {r} : call'[q] = call[q]
        /\ call'[r] # Idle /\ call'[r].at = "read" /\ call'[r].op = call[r].op /\ call'[r].of = k
    BY <1>1, <1>2, <2>3, <2>4, Proceeding
  <2>6. Moves(r) /\ CachesTyped'
    BY <1>4, <1>1, <1>2, <2>1, <2>2, <2>5 DEF CommitThenRead, Moves, CopiesRight, CachesTyped
  <2>7. Attends(call[r], k) => Attends(call[r], k)'
    BY <1>4, <1>1, <1>2, <2>1, <2>5, CacheConstants DEF CommitThenRead, Attends, Fresh
  <2> QED
    BY <1>1, <2>1, <2>5, <2>6, <2>7, MovesRight
<1>5. CASE CommitDelete(r) \/ CommitTransfer(r)
  <2>1. /\ \/ row' = [row EXCEPT ![k] = Absent]
           \/ row' = [row EXCEPT ![k] = IF @ = Absent THEN Absent ELSE @ + 1]
        /\ call[r].op \in InTransaction /\ call[r].op # "transfer"
        /\ call[r].at = "commit" /\ Ended(r)
        /\ UNCHANGED <<copy, mixed, writes, kind>>
    BY <1>5 DEF CommitDelete, CommitTransfer, InTransaction
  <2>2. row' \in [Rows -> Nat \cup {Absent}] /\ \A j \in Rows \ NoteRows : row'[j] \in Nat
    <3>1. k \in NoteRows
      BY <1>1, <2>1 DEF CopiesRight, CachesTyped, WellFormed
    <3>2. row[k] \in Nat \cup {Absent} /\ \A j \in Rows \ NoteRows : row[j] \in Nat
      BY <1>2 DEF CopiesRight, CachesTyped
    <3> QED
      BY <1>2, <2>1, <3>1, <3>2
  <2>3. Moves(r) /\ CachesTyped' /\ call'[r] = Idle
    BY <1>1, <1>2, <2>1, <2>2, Ending DEF Moves, CopiesRight, CachesTyped
  <2>4. Attends(call[r], k) => Fresh(k)'
    BY <1>1, <1>2, <2>1 DEF Attends, Fresh
  <2> QED
    BY <1>1, <2>1, <2>3, <2>4, MovesRight
<1>6. CASE CommitThenUncache(r)
  <2> DEFINE left == IF call[r].op = "transfer" THEN PublicRows ELSE <<k>>
  <2>1. call[r].op \in {"updateUser", "transfer"} /\ call[r].op \in OpsAt["uncache"]
    BY <1>6 DEF CommitThenUncache, OpsAt
  <2>2. left \in Seq(Rows) /\ left # <<>>
    <3>1. CASE call[r].op = "transfer"
      <4>1. PublicRows \in Seq(Publics) /\ Publics \subseteq Rows
        BY CacheConstants DEF Rows
      <4>2. PublicRows # <<>>
        BY <3>1, <1>1 DEF CopiesRight, CachesTyped, WellFormed
      <4> QED
        BY <3>1, <4>1, <4>2
    <3>2. CASE call[r].op # "transfer"
      BY <3>2, <1>1
    <3> QED
      BY <3>1, <3>2
  <2>3. \A j \in RowsOf(call[r]) : \E i \in DOMAIN left : left[i] = j
    <3>1. CASE call[r].op = "transfer"
      BY <3>1 DEF RowsOf, Publics
    <3>2. CASE call[r].op # "transfer"
      <4>1. left = <<k>> /\ RowsOf(call[r]) = {k}
        BY <3>2, <1>1
      <4> QED
        BY <4>1
    <3> QED
      BY <3>1, <3>2
  <2>4. \A i \in DOMAIN left : left[i] \in RowsOf(call[r])
    BY <1>1, CacheConstants DEF RowsOf, Publics
  <2>5. row' = [j \in Rows |-> IF j \in RowsOf(call[r]) THEN row[j] + 1 ELSE row[j]]
    BY <1>6 DEF CommitThenUncache
  <2>6. \A j \in RowsOf(call[r]) : row[j] \in Nat
    BY <1>1, <2>1, CacheConstants DEF RowsOf, CopiesRight, CachesTyped, WellFormed
  <2>7. row' \in [Rows -> Nat \cup {Absent}] /\ \A j \in Rows \ NoteRows : row'[j] \in Nat
    BY <1>2, <2>5, <2>6 DEF CopiesRight, CachesTyped
  <2>8. ProceedsTo(r, "uncache", call[r].val, left)
    BY <1>1, <1>2, <1>6 DEF ProceedsTo, CommitThenUncache, Call
  <2>9. /\ call' \in [Callers -> Call] /\ \A q \in Callers : WellFormed(call[q])'
        /\ \A q \in Callers \ {r} : call'[q] = call[q]
        /\ call'[r] # Idle /\ call'[r].at = "uncache" /\ call'[r].op = call[r].op
        /\ call'[r].of = k /\ call'[r].left = left
    <3>1. MayProceed(r, "uncache", call[r].val, left)
      BY <1>2, <2>1, <2>2, <2>4 DEF MayProceed, CallSteps
    <3> HIDE DEF left
    <3> QED
      BY <1>1, <2>8, <3>1, Proceeding
  <2> HIDE DEF left
  <2>10. Moves(r) /\ CachesTyped'
    BY <1>6, <1>1, <1>2, <2>5, <2>7, <2>9 DEF CommitThenUncache, Moves, CopiesRight, CachesTyped
  <2>11. ASSUME NEW j \in RowsOf(call[r]), Attends(call[r], j)
         PROVE  Attends(call[r], j)'
    <3>1. j \in ToDrop(call[r])'
      BY <2>3, <2>9 DEF ToDrop
    <3> QED
      BY <2>1, <2>9, <3>1 DEF Attends
  <2> QED
    BY <2>9, <2>10, <2>11, MovesRight
<1> QED
  BY <1>4, <1>5, <1>6

(* A request that deletes a row, or a copy, keeps the copies right. *)
LEMMA UncachesRight ==
  ASSUME CopiesRight, NEW r \in Callers, NEW k \in Rows, call[r].of = k,
         SoftDelete(r) \/ ReassignNote(r) \/ Uncache(r)
  PROVE  CopiesRight'
<1>1. /\ call[r].at \in {"change", "uncache"} /\ call[r] \in Call
      /\ RowsOf(call[r]) \subseteq Rows /\ call[r].op \in OpsAt[call[r].at]
      /\ call[r].op # "transfer" => RowsOf(call[r]) = {k}
  BY CallFacts DEF SoftDelete, ReassignNote, Uncache
<1>2. /\ row \in [Rows -> Nat \cup {Absent}] /\ copy \in [Rows -> Nat \cup {Absent}]
      /\ call \in [Callers -> Call] /\ call[r].left \in Seq(Rows) /\ call[r].val \in Nat \cup {Absent}
  BY <1>1 DEF CopiesRight, CachesTyped, Call
<1>5. CASE ReassignNote(r) /\ row[k] = Absent
  <2>1. Ended(r) /\ call[r].at = "change" /\ UNCHANGED <<row, copy, mixed, writes, kind>>
    BY <1>5 DEF ReassignNote
  <2>2. call[r].op \in InTransaction /\ RowsOf(call[r]) = {k}
    BY <1>1, <1>5 DEF ReassignNote, InTransaction
  <2>3. Moves(r) /\ CachesTyped' /\ call'[r] = Idle
    BY <1>1, <1>2, <2>1, Ending DEF Moves, CopiesRight, CachesTyped
  <2>4. Attends(call[r], k) => Fresh(k)'
    BY <2>1 DEF Attends, Fresh
  <2> QED
    BY <2>2, <2>3, <2>4, MovesRight
<1>3. CASE SoftDelete(r) \/ (ReassignNote(r) /\ row[k] # Absent)
  <2>0. /\ call' = [call EXCEPT ![r].at = "uncache", ![r].left = <<k>>]
        /\ call[r].at = "change" /\ call[r].op \in InTransaction
        /\ UNCHANGED <<row, copy, mixed, writes, kind>>
    BY <1>3 DEF SoftDelete, ReassignNote, InTransaction
  <2>1. ProceedsTo(r, "uncache", call[r].val, <<k>>)
    BY <1>1, <1>2, <2>0 DEF ProceedsTo, Call
  <2>2. call[r].op \in InTransaction /\ call[r].op \in OpsAt["uncache"] /\ call[r].op # "transfer"
    BY <1>1, <2>0 DEF OpsAt, InTransaction
  <2>3. /\ <<k>> \in Seq(Rows) /\ <<k>> # <<>> /\ DOMAIN <<k>> = {1}
        /\ \A i \in DOMAIN <<k>> : <<k>>[i] \in RowsOf(call[r])
    BY <1>1, <2>2
  <2>4. /\ call' \in [Callers -> Call] /\ \A q \in Callers : WellFormed(call[q])'
        /\ \A q \in Callers \ {r} : call'[q] = call[q]
        /\ call'[r] # Idle /\ call'[r].at = "uncache" /\ call'[r].left = <<k>>
        /\ call'[r].op = call[r].op /\ call'[r].of = k
    <3>1. MayProceed(r, "uncache", call[r].val, <<k>>)
      BY <1>2, <2>2, <2>3 DEF MayProceed, CallSteps
    <3> QED
      BY <1>1, <2>1, <3>1, Proceeding
  <2>5. Moves(r) /\ CachesTyped'
    BY <1>1, <2>0, <2>4 DEF Moves, CopiesRight, CachesTyped
  <2>6. Attends(call[r], k)'
    BY <2>2, <2>3, <2>4 DEF Attends, ToDrop, InTransaction
  <2> QED
    BY <1>1, <2>2, <2>4, <2>5, <2>6, MovesRight
<1>4. CASE Uncache(r)
  <2> DEFINE left == call[r].left
             h    == Head(left)
  <2>1. /\ call[r].at = "uncache" /\ left # <<>> /\ left \in Seq(Rows)
        /\ \A i \in DOMAIN left : left[i] \in RowsOf(call[r])
    BY <1>2, <1>4 DEF Uncache, CopiesRight, CachesTyped, WellFormed, ToDrop
  <2>2. h \in RowsOf(call[r]) /\ h = left[1] /\ h \in Rows
    BY <1>1, <2>1
  <2>3. copy' = [copy EXCEPT ![h] = Absent] /\ UNCHANGED <<row, mixed, writes, kind>>
    BY <1>4 DEF Uncache
  <2>4. copy' \in [Rows -> Nat \cup {Absent}] /\ copy'[h] = Absent
        /\ \A j \in Rows : copy'[j] \in {copy[j], Absent}
    BY <1>2, <2>2, <2>3
  <2>5. \A j \in RowsOf(call[r]) : Attends(call[r], j) =>
          copy'[j] = Absent \/ \E i \in 2..Len(left) : left[i] = j
    BY <1>1, <2>1, <2>2, <2>4 DEF Attends, ToDrop
  <2>6. CASE Len(left) > 1
    <3>1. /\ Tail(left) \in Seq(Rows) /\ Tail(left) # <<>>
          /\ DOMAIN Tail(left) = 1..(Len(left) - 1)
          /\ \A i \in 1..(Len(left) - 1) : Tail(left)[i] = left[i + 1]
      <4> HIDE DEF left
      <4>1. Len(Tail(left)) = Len(left) - 1 /\ Tail(left) \in Seq(Rows)
        BY <2>1, <2>6
      <4>2. Tail(left) # <<>>
        <5>1. Len(Tail(left)) # 0
          BY <2>1, <2>6, <4>1
        <5>2. Len(<<>>) = 0
          OBVIOUS
        <5> QED
          BY <5>1, <5>2
      <4> QED
        BY <2>1, <2>6, <4>1, <4>2
    <3>2. \A i \in DOMAIN Tail(left) : Tail(left)[i] \in RowsOf(call[r])
      BY <2>1, <3>1
    <3>3. ProceedsTo(r, "uncache", call[r].val, Tail(left))
      BY <1>1, <1>2, <1>4, <2>1, <2>6 DEF ProceedsTo, Uncache, Call
    <3>4. call[r].op \in OpsAt["uncache"]
      BY <1>1, <2>1
    <3>5. /\ call' \in [Callers -> Call] /\ \A q \in Callers : WellFormed(call[q])'
          /\ \A q \in Callers \ {r} : call'[q] = call[q]
          /\ call'[r] # Idle /\ call'[r].at = "uncache" /\ call'[r].left = Tail(left)
          /\ call'[r].op = call[r].op /\ call'[r].of = k
      <4>1. MayProceed(r, "uncache", call[r].val, Tail(left))
        BY <1>2, <3>1, <3>2, <3>4 DEF MayProceed, CallSteps
      <4> QED
        BY <1>1, <3>3, <4>1, Proceeding
    <3>6. Moves(r) /\ CachesTyped'
      BY <1>1, <1>2, <2>2, <2>3, <2>4, <3>5 DEF Moves, CopiesRight, CachesTyped
    <3>7. ASSUME NEW j \in RowsOf(call[r]), Attends(call[r], j)
          PROVE  Attends(call[r], j)'
      <4>1. copy'[j] = Absent \/ j \in ToDrop(call'[r])
        <5>1. CASE copy'[j] # Absent
          <6>1. PICK i \in 2..Len(left) : left[i] = j
            BY <2>5, <3>7, <5>1
          <6>2. i - 1 \in DOMAIN Tail(left) /\ Tail(left)[i - 1] = j
            BY <2>1, <3>1, <6>1
          <6> QED
            BY <3>5, <6>2 DEF ToDrop
        <5> QED
          BY <5>1
      <4>2. call'[r].op # "read"
        BY <3>4, <3>5 DEF OpsAt, InTransaction
      <4>3. ToDrop(call[r])' = ToDrop(call'[r])
        BY DEF ToDrop
      <4> QED
        BY <3>5, <4>1, <4>2, <4>3 DEF Attends
    <3> QED
      BY <3>5, <3>6, <3>7, MovesRight
  <2>7. CASE ~(Len(left) > 1)
    <3>1. \A j \in RowsOf(call[r]) : Attends(call[r], j) => copy'[j] = Absent
      <4>1. Len(left) \in Nat /\ 2..Len(left) = {}
        BY <2>1, <2>7
      <4> QED
        BY <2>5, <4>1
    <3>2. CASE call[r].op \in InTransaction
      <4>1. ProceedsTo(r, "commit", call[r].val, <<>>)
        BY <1>1, <1>2, <1>4, <2>1, <2>7, <3>2 DEF ProceedsTo, Uncache, Call
      <4>2. call[r].op \in OpsAt["commit"] /\ <<>> \in Seq(Rows)
        BY <3>2 DEF OpsAt
      <4>3. /\ call' \in [Callers -> Call] /\ \A q \in Callers : WellFormed(call[q])'
            /\ \A q \in Callers \ {r} : call'[q] = call[q]
            /\ call'[r] # Idle /\ call'[r].at = "commit"
            /\ call'[r].op = call[r].op /\ call'[r].of = k
        <5>1. MayProceed(r, "commit", call[r].val, <<>>)
          BY <1>2, <4>2 DEF MayProceed, CallSteps
        <5> QED
          BY <1>1, <4>1, <5>1, Proceeding
      <4>4. Moves(r) /\ CachesTyped'
        BY <1>1, <1>2, <2>2, <2>3, <2>4, <4>3 DEF Moves, CopiesRight, CachesTyped
      <4>5. \A j \in RowsOf(call[r]) : Attends(call[r], j) => Attends(call[r], j)'
        BY <3>1, <3>2, <4>3 DEF Attends, InTransaction
      <4> QED
        BY <4>3, <4>4, <4>5, MovesRight
    <3>3. CASE call[r].op \notin InTransaction
      <4>1. Ended(r)
        BY <1>4, <2>1, <2>7, <3>3 DEF Uncache, Ended
      <4>2. Moves(r) /\ CachesTyped' /\ call'[r] = Idle
        BY <1>1, <1>2, <2>2, <2>3, <2>4, <4>1, Ending DEF Moves, CopiesRight, CachesTyped
      <4>3. \A j \in RowsOf(call[r]) : Attends(call[r], j) => Fresh(j)'
        BY <3>1 DEF Fresh
      <4> QED
        BY <4>2, <4>3, MovesRight
    <3> QED
      BY <3>2, <3>3
  <2> QED
    BY <2>1, <2>6, <2>7
<1> QED
  BY <1>3, <1>4, <1>5

(* A login changes a row, or a request fails, and nobody says any more that  *)
(* the copies of their rows are fresh.                                       *)
LEMMA MixedRight ==
  ASSUME CopiesRight, NEW r \in Callers, CommitLogin(r) \/ Fail(r)
  PROVE  CopiesRight'
<1>1. /\ call[r].at # "idle" /\ Ended(r) /\ UNCHANGED <<copy, kind>>
      /\ RowsOf(call[r]) \subseteq Rows
      /\ CommitLogin(r) => call[r].of \in UserRows /\ RowsOf(call[r]) = {call[r].of}
  <2>1. call[r].at # "idle" /\ Ended(r) /\ UNCHANGED <<copy, kind>>
    BY DEF CommitLogin, Fail
  <2> QED
    BY <2>1, CallFacts DEF CommitLogin, CopiesRight, CachesTyped, WellFormed
<1>2. /\ call' \in [Callers -> Call] /\ \A q \in Callers : WellFormed(call[q])'
      /\ call'[r] = Idle /\ \A q \in Callers \ {r} : call'[q] = call[q]
  BY <1>1, Ending
<1>3. /\ \A k \in RowsOf(call[r]) : mixed'[k] = TRUE
      /\ \A k \in Rows \ RowsOf(call[r]) : mixed'[k] = mixed[k] /\ row'[k] = row[k]
      /\ mixed' \in [Rows -> BOOLEAN] /\ row' \in [Rows -> Nat \cup {Absent}]
      /\ \A k \in Rows \ NoteRows : row'[k] \in Nat
  <2>1. CASE CommitLogin(r)
    <3>1. /\ mixed' = [mixed EXCEPT ![call[r].of] = TRUE]
          /\ row' = [row EXCEPT ![call[r].of] = @ + 1]
      BY <2>1 DEF CommitLogin
    <3>2. call[r].of \in Rows /\ call[r].of \notin NoteRows /\ row[call[r].of] \in Nat
      BY <1>1, <2>1, CacheConstants DEF Rows, CopiesRight, CachesTyped
    <3>3. row \in [Rows -> Nat \cup {Absent}] /\ mixed \in [Rows -> BOOLEAN]
      BY DEF CopiesRight, CachesTyped
    <3>4. RowsOf(call[r]) = {call[r].of}
      BY <1>1, <2>1
    <3>5. row' \in [Rows -> Nat \cup {Absent}] /\ \A k \in Rows \ NoteRows : row'[k] \in Nat
      BY <3>1, <3>2, <3>3 DEF CopiesRight, CachesTyped
    <3> QED
      BY <3>1, <3>2, <3>3, <3>4, <3>5
  <2>2. CASE Fail(r)
    BY <2>2, <1>1 DEF Fail, CopiesRight, CachesTyped
  <2> QED
    BY <2>1, <2>2
<1>4. CachesTyped'
  BY <1>1, <1>2, <1>3 DEF CopiesRight, CachesTyped
<1>5. ASSUME NEW k \in Rows, ~mixed'[k]
      PROVE  CopyRight(k)'
  <2>1. k \notin RowsOf(call[r]) /\ CopyRight(k) /\ ~mixed[k]
    BY <1>3, <1>5 DEF CopiesRight
  <2>2. Busy(k)' = Busy(k) /\ r \notin Busy(k)
    BY <1>2, <2>1 DEF Busy, Idle
  <2>3. \A q \in Busy(k) : Attends(call[q], k)' = Attends(call[q], k)
    BY <1>1, <1>2, <1>3, <2>1, <2>2 DEF Attends, Busy, Fresh
  <2> QED
    BY <1>1, <1>3, <2>1, <2>2, <2>3 DEF CopyRight, Fresh
<1> QED
  BY <1>4, <1>5 DEF CopiesRight, CopyRight

(* A copy expires. *)
LEMMA ExpiresRight ==
  ASSUME CopiesRight, NEW k \in Rows, ExpireCopy(k)
  PROVE  CopiesRight'
<1>1. /\ copy' = [copy EXCEPT ![k] = Absent] /\ UNCHANGED <<row, call, mixed, kind>>
      /\ copy \in [Rows -> Nat \cup {Absent}]
  BY DEF ExpireCopy, CopiesRight, CachesTyped
<1>2. CachesTyped'
  BY <1>1 DEF CopiesRight, CachesTyped, WellFormed
<1>3. ASSUME NEW j \in Rows
      PROVE  CopyRight(j)'
  <2>1. CopyRight(j) /\ Busy(j)' = Busy(j) /\ copy'[j] \in {copy[j], Absent}
    BY <1>1 DEF CopiesRight, Busy
  <2>2. \A q \in Busy(j) : Attends(call[q], j) => Attends(call[q], j)'
    BY <1>1, <2>1 DEF Attends, Fresh, ToDrop
  <2> QED
    BY <1>1, <2>1, <2>2 DEF CopyRight, Fresh
<1> QED
  BY <1>2, <1>3 DEF CopiesRight

(* A request begins: it is alone with its rows, and their copies are fresh,  *)
(* or nobody says so any more.                                               *)
LEMMA StartsRight ==
  ASSUME CopiesRight, NEW r \in Callers, NEW k \in OfKind[kind], NEW op \in OpsOn[kind],
         Start(r, k, op)
  PROVE  CopiesRight'
<1> DEFINE c == [Idle EXCEPT !.op = op, !.of = k, !.at = FirstStep[op]]
<1>1. /\ k \in Rows /\ op \in {"read", "updateUser", "login", "updateNote", "transfer"} \cup InTransaction
      /\ op \in {"updateUser", "login"} => k \in UserRows
      /\ op \in {"updateNote"} \cup InTransaction => k \in NoteRows
      /\ op = "transfer" => k \in Publics
  BY DEF CopiesRight, CachesTyped, OfKind, OpsOn, Rows, InTransaction
<1>2. /\ c \in Call /\ c.op = op /\ c.of = k /\ c.at = FirstStep[op]
      /\ FirstStep[op] \in {"get", "commit", "change"} /\ op \in OpsAt[FirstStep[op]]
      /\ FirstStep[op] = "get" => op = "read"
      /\ FirstStep[op] = "change" <=> op \in InTransaction
  <2>1. /\ FirstStep["read"] = "get" /\ \A o \in InTransaction : FirstStep[o] = "change"
        /\ \A o \in {"updateUser", "login", "updateNote", "transfer"} : FirstStep[o] = "commit"
    BY DEF FirstStep, InTransaction
  <2>2. /\ OpsAt["get"] = {"read"} /\ OpsAt["change"] = InTransaction
        /\ OpsAt["commit"] = {"updateUser", "login", "updateNote", "transfer"} \cup InTransaction
    BY DEF OpsAt
  <2>3. FirstStep[op] \in {"get", "commit", "change"}
    BY <1>1, <2>1
  <2>4. Idle \in Call
    BY DEF Idle, Call, CallSteps
  <2>5. c \in Call /\ c.op = op /\ c.of = k /\ c.at = FirstStep[op]
    BY <1>1, <2>3, <2>4 DEF Call, CallSteps
  <2> QED
    BY <1>1, <2>1, <2>2, <2>3, <2>5
<1>3. op = "transfer" => PublicRows # <<>>
  BY <1>1 DEF Publics
<1>4. c \in Call /\ WellFormed(c) /\ RowsOf(c) \subseteq Rows
  <2> HIDE DEF c
  <2> QED
    BY <1>1, <1>2, <1>3 DEF WellFormed, RowsOf, Rows
<1>5. /\ call[r].at = "idle" /\ call' = [call EXCEPT ![r] = c] /\ UNCHANGED <<row, copy, kind>>
      /\ mixed' = [j \in Rows |->
           IF j \in RowsOf(c) THEN (mixed[j] /\ ~Calm(j, copy, Busy(j))) \/ Busy(j) # {}
           ELSE mixed[j]]
  BY DEF Start
<1> HIDE DEF c
<1>6. CachesTyped'
  BY <1>4, <1>5 DEF CopiesRight, CachesTyped, WellFormed
<1>7. /\ call'[r] = c /\ \A q \in Callers \ {r} : call'[q] = call[q]
      /\ c.op = op /\ c.at = FirstStep[op] /\ c.at # "idle"
  BY <1>2, <1>5 DEF CopiesRight, CachesTyped
<1>8. ASSUME NEW j \in Rows, ~mixed'[j]
      PROVE  CopyRight(j)'
  <2>1. CopyRight(j)
    BY DEF CopiesRight
  <2>2. CASE j \in RowsOf(c)
    <3>1. Busy(j) = {} /\ Fresh(j)
      BY <1>5, <1>8, <2>1, <2>2 DEF CopyRight, Calm, Fresh
    <3>2. Busy(j)' = {r}
      BY <1>5, <1>7, <2>2, <3>1 DEF Busy
    <3>3. Attends(call[r], j)'
      BY <1>2, <1>5, <1>7, <3>1 DEF Attends, Fresh
    <3> QED
      BY <3>2, <3>3 DEF CopyRight
  <2>3. CASE j \notin RowsOf(c)
    <3>1. Busy(j)' = Busy(j) /\ r \notin Busy(j) /\ mixed'[j] = mixed[j]
      BY <1>5, <1>7, <2>3 DEF Busy
    <3>2. \A q \in Busy(j) : Attends(call[q], j)' = Attends(call[q], j)
      BY <1>5, <1>7, <3>1 DEF Attends, Busy, Fresh
    <3> QED
      BY <1>5, <2>1, <3>1, <3>2 DEF CopyRight, Fresh
  <2> QED
    BY <2>2, <2>3
<1> QED
  BY <1>6, <1>8 DEF CopiesRight, CopyRight

(* Every step keeps the copies right. *)
LEMMA CopiesStep ==
  ASSUME CopiesRight, [CacheNext]_cacheVars
  PROVE  CopiesRight'
<1>1. ASSUME NEW r \in Callers, Step(r) \/ Fail(r)
      PROVE  CopiesRight'
  <2>1. CASE CommitLogin(r) \/ Fail(r)
    BY <2>1, MixedRight
  <2>2. CASE Step(r) /\ ~CommitLogin(r)
    <3>1. call[r].of \in Rows
      BY <2>2, CallFacts DEF Step, GetByCache, ReadRow, Cache, SoftDelete, Uncache,
        CommitThenUncache, CommitThenRead, CommitDelete, ReassignNote, CommitTransfer
    <3> QED
      BY <2>2, <3>1, ReadsRight, CommitsRight, UncachesRight DEF Step
  <2> QED
    BY <1>1, <2>1, <2>2
<1>2. ASSUME UNCHANGED cacheVars
      PROVE  CopiesRight'
  BY <1>2 DEF cacheVars, CopiesRight, CachesTyped, WellFormed, CopyRight, Busy, Attends, Fresh
<1> QED
  BY <1>1, <1>2, StartsRight, ExpiresRight DEF CacheNext

(* However requests for a row follow each other, through reads, changes,     *)
(* deletions and transfers, and whatever happens to other rows: a copy in    *)
(* redis that is not that of the row belongs to a change on its way to it,   *)
(* unless requests for that row have overlapped or failed, or a login has    *)
(* changed it (cache and uncache of UserService, PointNoteService and        *)
(* PublicMapService).                                                        *)
THEOREM CopiesFresh == CacheSpec => []CacheFresh
<1>1. CopiesRight /\ [CacheNext]_cacheVars => CopiesRight'
  BY CopiesStep
<1> QED
  BY InitCopies, CopiesRightFresh, <1>1, PTL DEF CacheSpec

(* What a request is about to write is a row, and it has copies to drop only *)
(* while it drops them.                                                      *)
CallRight(c) == (c.at = "cache" => c.val \in Nat) /\ (c.left # <<>> => c.at = "uncache")

CallsRight == \A r \in Callers : CallRight(call[r])

(* The call that a request makes after one of its statements *)
LEMMA NextCall ==
  ASSUME CopiesRight, CallsRight, NEW r \in Callers, Step(r) \/ Fail(r)
  PROVE  \E c : call' = [call EXCEPT ![r] = c] /\ CallRight(c)
<1>1. CallRight(Idle)
  BY DEF Idle, CallRight
<1>2. CASE Ended(r)
  BY <1>1, <1>2 DEF Ended
<1>3. call[r] \in Call /\ CallRight(call[r]) /\ row \in [Rows -> Nat \cup {Absent}]
  BY DEF CallsRight, CopiesRight, CachesTyped
<1>4. ASSUME Proceed(r, "read"), call[r].at \in {"get", "commit"}
      PROVE  \E c : call' = [call EXCEPT ![r] = c] /\ CallRight(c)
  <2> DEFINE c == [call[r] EXCEPT !.at = "read"]
  <2>1. call' = [call EXCEPT ![r] = c]
    BY <1>4 DEF Proceed
  <2>2. CallRight(c)
    BY <1>3, <1>4 DEF CallRight, Call
  <2> QED
    BY <2>1, <2>2
<1>5. ASSUME ReadRow(r), row[call[r].of] # Absent
      PROVE  \E c : call' = [call EXCEPT ![r] = c] /\ CallRight(c)
  <2> DEFINE c == [call[r] EXCEPT !.at = "cache", !.val = row[call[r].of]]
  <2>1. call' = [call EXCEPT ![r] = c] /\ call[r].at = "read"
    BY <1>5 DEF ReadRow
  <2>2. row[call[r].of] \in Nat
    BY <1>3, <1>5, <2>1, CallFacts
  <2>3. CallRight(c)
    BY <1>3, <2>1, <2>2 DEF CallRight, Call
  <2> QED
    BY <2>1, <2>3
<1>6. CASE SoftDelete(r) \/ (ReassignNote(r) /\ row[call[r].of] # Absent)
  <2> DEFINE c == [call[r] EXCEPT !.at = "uncache", !.left = <<call[r].of>>]
  <2>1. call' = [call EXCEPT ![r] = c]
    BY <1>6 DEF SoftDelete, ReassignNote
  <2>2. CallRight(c)
    BY <1>3 DEF CallRight, Call
  <2> QED
    BY <2>1, <2>2
<1>7. CASE CommitThenUncache(r)
  <2> DEFINE c == [call[r] EXCEPT !.at = "uncache",
                     !.left = IF call[r].op = "transfer" THEN PublicRows ELSE <<call[r].of>>]
  <2>1. call' = [call EXCEPT ![r] = c]
    BY <1>7 DEF CommitThenUncache
  <2>2. CallRight(c)
    BY <1>3 DEF CallRight, Call
  <2> QED
    BY <2>1, <2>2
<1>8. CASE Uncache(r)
  <2> DEFINE c == IF Len(call[r].left) > 1 THEN [call[r] EXCEPT !.left = Tail(call[r].left)]
                  ELSE IF call[r].op \in InTransaction THEN [call[r] EXCEPT !.at = "commit", !.left = <<>>]
                  ELSE Idle
  <2>1. call' = [call EXCEPT ![r] = c] /\ call[r].at = "uncache"
    BY <1>8 DEF Uncache
  <2>2. CallRight(c)
    BY <1>1, <1>3, <2>1 DEF CallRight, Call
  <2> QED
    BY <2>1, <2>2
<1>9. CASE GetByCache(r)
  BY <1>2, <1>4, <1>9 DEF GetByCache
<1>10. CASE ReadRow(r)
  BY <1>2, <1>5, <1>10 DEF ReadRow
<1>11. CASE CommitThenRead(r)
  BY <1>4, <1>11 DEF CommitThenRead
<1> QED
  BY <1>2, <1>6, <1>7, <1>8, <1>9, <1>10, <1>11
  DEF Step, Fail, Cache, CommitLogin, CommitDelete, ReassignNote, CommitTransfer

(* Every step keeps the calls right. *)
LEMMA CallsStep ==
  ASSUME CopiesRight, CallsRight, [CacheNext]_cacheVars
  PROVE  CallsRight'
<1>1. ASSUME NEW r \in Callers, NEW c, call' = [call EXCEPT ![r] = c], CallRight(c)
      PROVE  CallsRight'
  <2>1. call \in [Callers -> Call]
    BY DEF CopiesRight, CachesTyped
  <2> QED
    BY <1>1, <2>1 DEF CallsRight
<1>2. ASSUME NEW r \in Callers, Step(r) \/ Fail(r)
      PROVE  CallsRight'
  BY <1>1, <1>2, NextCall
<1>3. ASSUME NEW r \in Callers, NEW k \in OfKind[kind], NEW op \in OpsOn[kind], Start(r, k, op)
      PROVE  CallsRight'
  <2> DEFINE c == [Idle EXCEPT !.op = op, !.of = k, !.at = FirstStep[op]]
  <2>1. call' = [call EXCEPT ![r] = c]
    BY <1>3 DEF Start
  <2>2. op \in {"read", "updateUser", "login", "updateNote", "transfer"} \cup InTransaction
    BY DEF CopiesRight, CachesTyped, OfKind, OpsOn, InTransaction
  <2>3. FirstStep[op] # "cache" /\ c.at = FirstStep[op] /\ c.left = <<>>
    BY <2>2 DEF FirstStep, Idle, InTransaction
  <2>4. CallRight(c)
    BY <2>3 DEF CallRight
  <2> QED
    BY <1>1, <2>1, <2>4
<1>4. CASE (\E k \in Rows : ExpireCopy(k)) \/ UNCHANGED cacheVars
  BY <1>4 DEF ExpireCopy, cacheVars, CallsRight
<1> QED
  BY <1>2, <1>3, <1>4 DEF CacheNext

(* Rows, copies and requests are well typed: what cache writes is a row that *)
(* was read, and uncache has something to drop as long as it runs.           *)
THEOREM CachesKeepTypes == CacheSpec => []CachesTypeOK
<1>1. CacheInit => CallsRight
  BY DEF CacheInit, CallsRight, CallRight, Idle
<1>2. CopiesRight /\ CallsRight /\ [CacheNext]_cacheVars => (CopiesRight /\ CallsRight)'
  BY CopiesStep, CallsStep
<1>3. CopiesRight /\ CallsRight => CachesTypeOK
  <2> SUFFICES ASSUME CopiesRight, CallsRight, NEW r \in Callers
               PROVE  /\ call[r].at \in CallSteps
                      /\ call[r].at = "cache" => call[r].val \in Nat
                      /\ call[r].at = "uncache" <=> call[r].left # <<>>
    BY DEF CachesTypeOK, CopiesRight, CachesTyped, CallSteps
  <2> QED
    BY DEF CopiesRight, CachesTyped, WellFormed, CallsRight, CallRight, Call
<1> QED
  BY InitCopies, <1>1, <1>2, <1>3, PTL DEF CacheSpec

(* No copy, and nothing that is about to become one, is of a later version    *)
(* than the row that is there.                                               *)
CopyBehind(k) == row[k] \in Nat /\ copy[k] \in Nat => copy[k] <= row[k]
CallBehind(c) == c.at = "cache" /\ row[c.of] \in Nat => c.val <= row[c.of]

NeverAhead ==
  /\ \A k \in Rows : CopyBehind(k)
  /\ \A r \in Callers : CallBehind(call[r])

(* A row that is there is never replaced by an earlier version of it, and a  *)
(* deleted one does not come back.                                           *)
RowsGoOn == \A k \in Rows : row'[k] \in Nat => row[k] \in Nat /\ row[k] <= row'[k]

(* No statement brings back an earlier row. *)
LEMMA RowsStep ==
  ASSUME CopiesRight, [CacheNext]_cacheVars
  PROVE  RowsGoOn
<1>1. row \in [Rows -> Nat \cup {Absent}] /\ \A k \in Rows \ NoteRows : row[k] \in Nat
  BY DEF CopiesRight, CachesTyped
<1>2. CASE UNCHANGED row
  BY <1>1, <1>2 DEF RowsGoOn
<1>3. ASSUME NEW r \in Callers, CommitThenUncache(r)
      PROVE  RowsGoOn
  <2>1. RowsOf(call[r]) \cap NoteRows = {}
    BY <1>3, CacheConstants DEF CopiesRight, CachesTyped, WellFormed, CommitThenUncache, RowsOf
  <2> QED
    BY <1>1, <1>3, <2>1 DEF CommitThenUncache, RowsGoOn
<1>4. ASSUME NEW r \in Callers, CommitLogin(r)
      PROVE  RowsGoOn
  <2>1. call[r].of \in Rows \ NoteRows
    BY <1>4, CacheConstants DEF CopiesRight, CachesTyped, WellFormed, CommitLogin, Rows
  <2> QED
    BY <1>1, <1>4, <2>1 DEF CommitLogin, RowsGoOn
<1>5. ASSUME NEW r \in Callers, CommitThenRead(r)
      PROVE  RowsGoOn
  BY <1>1, <1>5, CacheConstants DEF CommitThenRead, RowsGoOn
<1>6. ASSUME NEW r \in Callers, CommitDelete(r)
      PROVE  RowsGoOn
  BY <1>1, <1>6, CacheConstants DEF CommitDelete, RowsGoOn
<1>7. ASSUME NEW r \in Callers, CommitTransfer(r)
      PROVE  RowsGoOn
  BY <1>1, <1>7, CacheConstants DEF CommitTransfer, RowsGoOn
<1>8. ASSUME NEW r \in Callers, ReassignNote(r)
      PROVE  RowsGoOn
  BY <1>2, <1>8 DEF ReassignNote
<1> QED
  BY <1>2, <1>3, <1>4, <1>5, <1>6, <1>7, <1>8
  DEF CacheNext, Step, Fail, Start, ExpireCopy, GetByCache, ReadRow, Cache, SoftDelete, Uncache,
      cacheVars

(* What a copy or a request has is behind a row that goes on. *)
LEMMA StaysBehind ==
  ASSUME CopiesRight, CallsRight, NeverAhead, RowsGoOn
  PROVE  /\ \A k \in Rows : row'[k] \in Nat /\ copy[k] \in Nat => copy[k] <= row'[k]
         /\ \A r \in Callers : call[r].at = "cache" /\ row'[call[r].of] \in Nat =>
              call[r].val <= row'[call[r].of]
<1>1. \A r \in Callers : call[r].at = "cache" => call[r].val \in Nat /\ call[r].of \in Rows
  BY CallFacts DEF CallsRight, CallRight
<1> QED
  BY <1>1 DEF NeverAhead, CopyBehind, CallBehind, RowsGoOn

(* A step writes the copies that it drops or that it had read, and reads the  *)
(* row that is there.                                                        *)
LEMMA BehindStep ==
  ASSUME CopiesRight, CallsRight, NeverAhead, [CacheNext]_cacheVars
  PROVE  NeverAhead'
<1>1. RowsGoOn
  BY RowsStep
<1>2. /\ copy \in [Rows -> Nat \cup {Absent}] /\ call \in [Callers -> Call]
      /\ row \in [Rows -> Nat \cup {Absent}]
  BY DEF CopiesRight, CachesTyped
<1>3. ASSUME NEW k \in Rows
      PROVE  CopyBehind(k)'
  <2>1. CASE copy'[k] \in {copy[k], Absent}
    BY <1>1, <2>1, StaysBehind, CacheConstants DEF CopyBehind
  <2>2. ASSUME NEW r \in Callers, Cache(r)
        PROVE  CopyBehind(k)'
    <3>1. call[r].at = "cache" /\ row' = row /\ copy' = [copy EXCEPT ![call[r].of] = call[r].val]
      BY <2>2 DEF Cache
    <3> QED
      BY <1>2, <3>1 DEF NeverAhead, CopyBehind, CallBehind
  <2>3. ASSUME NEW r \in Callers, Uncache(r)
        PROVE  copy'[k] \in {copy[k], Absent}
    BY <1>2, <2>3 DEF Uncache
  <2>4. ASSUME NEW j \in Rows, ExpireCopy(j)
        PROVE  copy'[k] \in {copy[k], Absent}
    BY <1>2, <2>4 DEF ExpireCopy
  <2>5. CASE UNCHANGED copy
    BY <2>1, <2>5
  <2> QED
    BY <2>1, <2>2, <2>3, <2>4, <2>5
    DEF CacheNext, Step, Fail, Start, GetByCache, ReadRow, SoftDelete, CommitThenUncache,
        CommitLogin, CommitThenRead, CommitDelete, ReassignNote, CommitTransfer, cacheVars
<1>4. ASSUME NEW q \in Callers
      PROVE  CallBehind(call[q])'
  <2>1. CASE call'[q] = call[q] \/ call'[q].at # "cache"
    BY <1>1, <2>1, StaysBehind DEF CallBehind
  <2>2. ASSUME NEW r \in Callers, NEW c, call' = [call EXCEPT ![r] = c], c.at # "cache"
        PROVE  call'[q] = call[q] \/ call'[q].at # "cache"
    BY <1>2, <2>2
  <2>3. ASSUME NEW r \in Callers, ReadRow(r), row[call[r].of] # Absent
        PROVE  CallBehind(call[q])'
    <3> DEFINE c == [call[r] EXCEPT !.at = "cache", !.val = row[call[r].of]]
    <3>1. row' = row /\ call' = [call EXCEPT ![r] = c] /\ call[r] \in Call
      BY <1>2, <2>3 DEF ReadRow
    <3>2. c.val = row[c.of]
      BY <3>1 DEF Call
    <3>3. CASE q = r
      BY <1>2, <3>1, <3>2, <3>3 DEF CallBehind
    <3>4. CASE q # r
      BY <1>2, <2>1, <3>1, <3>4
    <3> QED
      BY <3>3, <3>4
  <2>4. ASSUME NEW r \in Callers, Ended(r) \/ Proceed(r, "read")
        PROVE  call'[q] = call[q] \/ call'[q].at # "cache"
    <3>1. Idle.at # "cache" /\ [call[r] EXCEPT !.at = "read"].at # "cache"
      BY <1>2 DEF Idle, Call
    <3> QED
      BY <1>2, <2>4, <3>1 DEF Ended, Proceed
  <2>5. ASSUME NEW r \in Callers, SoftDelete(r) \/ CommitThenUncache(r) \/ Uncache(r) \/ ReassignNote(r)
        PROVE  call'[q] = call[q] \/ call'[q].at # "cache"
    <3>1. call[r] \in Call
      BY <1>2
    <3>5. CASE ReassignNote(r) /\ row[call[r].of] = Absent
      BY <2>4, <3>5 DEF ReassignNote
    <3>2. CASE SoftDelete(r) \/ (ReassignNote(r) /\ row[call[r].of] # Absent)
      <4> DEFINE c == [call[r] EXCEPT !.at = "uncache", !.left = <<call[r].of>>]
      <4>1. call' = [call EXCEPT ![r] = c] /\ c.at # "cache"
        BY <3>1, <3>2 DEF SoftDelete, ReassignNote, Call
      <4> QED
        BY <2>2, <4>1
    <3>3. CASE CommitThenUncache(r)
      <4> DEFINE c == [call[r] EXCEPT !.at = "uncache",
                         !.left = IF call[r].op = "transfer" THEN PublicRows ELSE <<call[r].of>>]
      <4>1. call' = [call EXCEPT ![r] = c] /\ c.at # "cache"
        BY <3>1, <3>3 DEF CommitThenUncache, Call
      <4> QED
        BY <2>2, <4>1
    <3>4. CASE Uncache(r)
      <4> DEFINE c == IF Len(call[r].left) > 1 THEN [call[r] EXCEPT !.left = Tail(call[r].left)]
                      ELSE IF call[r].op \in InTransaction
                      THEN [call[r] EXCEPT !.at = "commit", !.left = <<>>] ELSE Idle
      <4>1. call' = [call EXCEPT ![r] = c] /\ c.at # "cache"
        BY <3>1, <3>4 DEF Uncache, Call, Idle
      <4> QED
        BY <2>2, <4>1
    <3> QED
      BY <2>5, <3>2, <3>3, <3>4, <3>5
  <2>6. ASSUME NEW r \in Callers, NEW k \in OfKind[kind], NEW op \in OpsOn[kind], Start(r, k, op)
        PROVE  call'[q] = call[q] \/ call'[q].at # "cache"
    <3> DEFINE c == [Idle EXCEPT !.op = op, !.of = k, !.at = FirstStep[op]]
    <3>1. op \in {"read", "updateUser", "login", "updateNote", "transfer"} \cup InTransaction
      BY DEF CopiesRight, CachesTyped, OfKind, OpsOn, InTransaction
    <3>2. c.at # "cache"
      BY <3>1 DEF FirstStep, Idle, InTransaction
    <3>3. call' = [call EXCEPT ![r] = c]
      BY <2>6 DEF Start
    <3> HIDE DEF c
    <3> QED
      BY <2>2, <3>2, <3>3
  <2>7. CASE UNCHANGED call
    BY <2>1, <2>7
  <2> QED
    BY <2>1, <2>3, <2>4, <2>5, <2>6, <2>7
    DEF CacheNext, Step, Fail, GetByCache, ReadRow, Cache, CommitLogin, CommitThenRead,
        CommitDelete, CommitTransfer, ExpireCopy, cacheVars
<1> QED
  BY <1>3, <1>4 DEF NeverAhead

(* Whatever requests overlap, fail or are overtaken, a copy is never ahead of *)
(* its row: it may be old, but what a transaction has not committed is not in *)
(* redis (UserService, PointNoteService, MapCacheService).                    *)
THEOREM CopiesNeverAhead == CacheSpec => []NeverAhead
<1>1. CacheInit => NeverAhead
  BY CacheConstants DEF CacheInit, NeverAhead, CopyBehind, CallBehind, Idle
<1>2. CacheInit => CallsRight
  BY DEF CacheInit, CallsRight, CallRight, Idle
<1>3. CopiesRight /\ CallsRight /\ NeverAhead /\ [CacheNext]_cacheVars =>
        (CopiesRight /\ CallsRight /\ NeverAhead)'
  BY CopiesStep, CallsStep, BehindStep
<1> QED
  BY InitCopies, <1>1, <1>2, <1>3, PTL DEF CacheSpec

--------------------------------------------------------------------------------
(* MasterWorkers *)

(* The token that worker w will have when it has handled what was sent to it *)
WillHold(w, t) ==
  \/ \E i \in DOMAIN toWorker[w] :
       /\ toWorker[w][i] = Token(t)
       /\ \A j \in DOMAIN toWorker[w] : j > i => toWorker[w][j].type = "media"
  \/ /\ \A i \in DOMAIN toWorker[w] : toWorker[w][i].type = "media"
     /\ tok[w] = t

(* The master sends every token to all workers, in one order: the workers    *)
(* that it listens to and that have nothing more to report will hold one.    *)
OneToken ==
  alive => \E t : \A w \in Children :
    up[w] /\ listened[w] /\ toMaster[w] = <<>> => WillHold(w, t)

WorkersTyped == WorkersTypeOK /\ asked \in Nat /\ issued <= asked /\ asked <= MaxAsked

TokensRight == WorkersTyped /\ OneToken

(* A message is a token or says whether the media id is known. *)
LEMMA MessageFacts ==
  /\ \A t \in Tokens : Token(t) \in Messages /\ Token(t).type = "token" /\ Token(t).token = t
  /\ \A b \in BOOLEAN : Media(b) \in Messages /\ Media(b).type = "media"
  /\ \A m \in Messages : m.type # "media" => m.token \in Tokens /\ m = Token(m.token)
  /\ \A m \in Messages : m.type = "media" => m.known \in BOOLEAN
<1>1. \A m \in Messages : m.type # "media" => m.token \in Tokens /\ m = Token(m.token)
  BY DEF Messages, Token
<1> QED
  BY <1>1 DEF Messages, Token, Media

(* All processes start without a token. *)
LEMMA InitTokens == ProcessInit => TokensRight
<1> SUFFICES ASSUME ProcessInit
             PROVE  TokensRight
  OBVIOUS
<1>1. WorkersTyped
  <2>1. <<>> \in Seq(Messages) /\ <<>> \in Seq(Tokens)
    OBVIOUS
  <2>2. 0 \in Tokens /\ 0 <= MaxAsked
    BY WorkerConstants DEF Tokens
  <2>3. toWorker \in [Children -> Seq(Messages)] /\ toMaster \in [Children -> Seq(Tokens)]
    BY <2>1 DEF ProcessInit
  <2>4. alive \in BOOLEAN /\ started \in BOOLEAN
    BY DEF ProcessInit
  <2>5. /\ up \in [Children -> BOOLEAN] /\ listened \in [Children -> BOOLEAN]
        /\ kefu \in [Children -> BOOLEAN]
    BY DEF ProcessInit
  <2>6. /\ masterTok \in Tokens \cup {NoToken} /\ issued \in Tokens
        /\ tok \in [Children -> Tokens \cup {NoToken}]
        /\ answer \in [Askers -> Tokens \cup {NoToken}]
    BY <2>2 DEF ProcessInit
  <2>7. asked \in Nat /\ issued <= asked /\ asked <= MaxAsked
    BY <2>2 DEF ProcessInit
  <2> QED
    BY <2>3, <2>4, <2>5, <2>6, <2>7 DEF WorkersTyped, WorkersTypeOK
<1>2. \A w \in Children : WillHold(w, NoToken)
  BY DEF ProcessInit, WillHold
<1> QED
  BY <1>1, <1>2 DEF TokensRight, OneToken

(* What a message that is sent to all does to a worker that is still up *)
LEMMA SendingAll ==
  ASSUME WorkersTyped, NEW m \in Messages, SendAll(m)
  PROVE  /\ toWorker' \in [Children -> Seq(Messages)] /\ up' \in [Children -> BOOLEAN]
         /\ alive' \in BOOLEAN /\ \A w \in Children : up'[w] => up[w]
         /\ \A t : m = Token(t) => \A w \in Children : up'[w] => WillHold(w, t)'
         /\ m.type = "media" => \A t : \A w \in Children :
              up'[w] /\ tok'[w] = tok[w] /\ WillHold(w, t) => WillHold(w, t)'
<1>1. \A w \in Children : toWorker[w] \in Seq(Messages) /\ up[w] \in BOOLEAN
  BY DEF WorkersTyped, WorkersTypeOK
<1>2. /\ toWorker' = [w \in Children |-> IF up[w] THEN Append(toWorker[w], m) ELSE toWorker[w]]
      /\ alive' = ~Unheard /\ up' = [w \in Children |-> up[w] /\ ~Unheard]
  BY DEF SendAll
<1>3. ASSUME NEW w \in Children
      PROVE  up'[w] \in BOOLEAN /\ toWorker'[w] \in Seq(Messages)
  BY <1>1, <1>2
<1>4. ASSUME NEW w \in Children, up'[w]
      PROVE  /\ up[w] /\ toWorker'[w] = Append(toWorker[w], m)
             /\ DOMAIN toWorker'[w] = 1..(Len(toWorker[w]) + 1)
             /\ DOMAIN toWorker[w] = 1..Len(toWorker[w]) /\ Len(toWorker[w]) \in Nat
             /\ toWorker'[w][Len(toWorker[w]) + 1] = m
             /\ \A i \in DOMAIN toWorker[w] : toWorker'[w][i] = toWorker[w][i]
  BY <1>1, <1>2, <1>4
<1>5. ASSUME NEW t, m = Token(t), NEW w \in Children, up'[w]
      PROVE  WillHold(w, t)'
  BY <1>4, <1>5 DEF WillHold
<1>6. ASSUME m.type = "media", NEW t, NEW w \in Children, up'[w], tok'[w] = tok[w], WillHold(w, t)
      PROVE  WillHold(w, t)'
  BY <1>4, <1>6 DEF WillHold
<1>7. alive' \in BOOLEAN
  BY <1>2
<1> QED
  BY <1>2, <1>3, <1>4, <1>5, <1>6, <1>7

(* A step that takes no token from anybody's future keeps the agreement. *)
LEMMA AgreementKept ==
  ASSUME TokensRight, WorkersTyped', alive' => alive,
         \A w \in Children : up'[w] /\ listened'[w] /\ toMaster'[w] = <<>> =>
           /\ up[w] /\ listened[w] /\ toMaster[w] = <<>>
           /\ \A t : WillHold(w, t) => WillHold(w, t)'
  PROVE  TokensRight'
<1> SUFFICES ASSUME alive'
             PROVE  \E t : \A w \in Children :
                      up'[w] /\ listened'[w] /\ toMaster'[w] = <<>> => WillHold(w, t)'
  BY DEF TokensRight, OneToken
<1>1. PICK t : \A w \in Children : up[w] /\ listened[w] /\ toMaster[w] = <<>> => WillHold(w, t)
  BY DEF TokensRight, OneToken
<1> QED
  BY <1>1

(* A token that is sent to all is the one that all will hold. *)
LEMMA AgreementSent ==
  ASSUME TokensRight, WorkersTyped', NEW t \in Tokens, SendAll(Token(t))
  PROVE  TokensRight'
<1>1. \A w \in Children : up'[w] => WillHold(w, t)'
  BY SendingAll, MessageFacts DEF TokensRight
<1> QED
  BY <1>1 DEF TokensRight, OneToken

(* A process that asks for a token keeps one token for all. *)
LEMMA AsksRight ==
  ASSUME TokensRight, NEW x \in Askers, Ask(x), started' \in BOOLEAN
  PROVE  TokensRight'
<1>1. /\ UNCHANGED <<alive, up, listened, exits, masterTok, tok, kefu, toWorker, toMaster, uploads>>
      /\ asked < MaxAsked /\ asked' = asked + 1
      /\ \/ issued' = issued + 1 /\ answer' = [answer EXCEPT ![x] = issued + 1]
         \/ issued' = issued /\ answer' = [answer EXCEPT ![x] = Bad]
  BY DEF Ask, workers, ipc
<1>2. issued' \in Tokens /\ issued' <= asked' /\ asked' <= MaxAsked /\ asked' \in Nat
      /\ answer' \in [Askers -> Tokens \cup {NoToken}]
  <2>1. /\ issued \in Tokens /\ issued <= asked /\ asked \in Nat /\ MaxAsked \in Nat
        /\ answer \in [Askers -> Tokens \cup {NoToken}]
    BY WorkerConstants DEF TokensRight, WorkersTyped, WorkersTypeOK
  <2>2. Bad \in Tokens /\ issued + 1 \in Tokens
    BY <1>1, <2>1 DEF Tokens, Bad
  <2>3. issued' <= asked' /\ asked' <= MaxAsked /\ asked' \in Nat
    BY <1>1, <2>1 DEF Tokens
  <2> QED
    BY <1>1, <2>1, <2>2, <2>3
<1>3. WorkersTyped'
  BY <1>1, <1>2 DEF TokensRight, WorkersTyped, WorkersTypeOK
<1>4. \A w \in Children : \A t : WillHold(w, t) => WillHold(w, t)'
  BY <1>1 DEF WillHold
<1> QED
  BY <1>1, <1>3, <1>4, AgreementKept

(* A report is passed on, and what the master has fetched is sent. *)
LEMMA SendsRight ==
  ASSUME TokensRight,
         \/ InitToken \/ TimerToken
         \/ \E w \in Children : Relay(w)
         \/ \E done \in BOOLEAN : TempMedia(done)
  PROVE  TokensRight'
<1>1. /\ WorkersTyped /\ listened \in [Children -> BOOLEAN] /\ kefu \in [Children -> BOOLEAN]
      /\ toMaster \in [Children -> Seq(Tokens)] /\ answer \in [Askers -> Tokens \cup {NoToken}]
      /\ tok \in [Children -> Tokens \cup {NoToken}]
  BY DEF TokensRight, WorkersTyped, WorkersTypeOK
<1>2. "init" \in Askers /\ "timer" \in Askers
  BY DEF Askers
<1>3. ASSUME NEW x \in {"init", "timer"}, answer[x] # NoToken, SendAll(Token(answer[x])), Handled(x),
             masterTok' = answer[x],
             UNCHANGED <<listened, tok, kefu, toMaster, started, issued, asked, uploads, exits>>
      PROVE  TokensRight'
  <2>1. answer[x] \in Tokens
    BY <1>1, <1>2, <1>3
  <2>2. /\ toWorker' \in [Children -> Seq(Messages)] /\ up' \in [Children -> BOOLEAN]
        /\ alive' \in BOOLEAN
    BY <1>1, <1>3, <2>1, MessageFacts, SendingAll
  <2>3. answer' \in [Askers -> Tokens \cup {NoToken}]
    BY <1>1, <1>3 DEF Handled
  <2>4. WorkersTyped'
    BY <1>1, <1>3, <2>1, <2>2, <2>3 DEF WorkersTyped, WorkersTypeOK
  <2> QED
    BY <1>3, <2>1, <2>4, AgreementSent
<1>4. CASE InitToken
  BY <1>4, <1>3 DEF InitToken
<1>5. CASE TimerToken
  <2>1. CASE masterTok = NoToken
    <3>1. answer' = [answer EXCEPT !["timer"] = NoToken]
          /\ UNCHANGED <<alive, up, masterTok, toWorker, listened, tok, kefu, toMaster,
                         started, issued, asked, uploads, exits>>
      BY <1>5, <2>1 DEF TimerToken, Handled
    <3>2. WorkersTyped'
      BY <1>1, <3>1 DEF WorkersTyped, WorkersTypeOK
    <3>3. \A w \in Children : \A t : WillHold(w, t) => WillHold(w, t)'
      BY <3>1 DEF WillHold
    <3> QED
      BY <3>1, <3>2, <3>3, AgreementKept
  <2>2. CASE masterTok # NoToken
    BY <1>5, <2>2, <1>3 DEF TimerToken
  <2> QED
    BY <2>1, <2>2
<1>6. ASSUME NEW w \in Children, Relay(w)
      PROVE  TokensRight'
  <2>1. /\ toMaster[w] # <<>> /\ SendAll(Token(Head(toMaster[w])))
        /\ toMaster' = [toMaster EXCEPT ![w] = Tail(toMaster[w])]
        /\ UNCHANGED <<listened, masterTok, tok, kefu, answer, started, issued, asked, uploads, exits>>
    BY <1>6 DEF Relay, wechat
  <2>2. Head(toMaster[w]) \in Tokens /\ Tail(toMaster[w]) \in Seq(Tokens)
    BY <1>1, <2>1
  <2>3. /\ toWorker' \in [Children -> Seq(Messages)] /\ up' \in [Children -> BOOLEAN]
        /\ alive' \in BOOLEAN
    BY <1>1, <2>1, <2>2, MessageFacts, SendingAll
  <2>4. toMaster' \in [Children -> Seq(Tokens)]
    BY <1>1, <2>1, <2>2
  <2>5. WorkersTyped'
    BY <1>1, <2>1, <2>3, <2>4 DEF WorkersTyped, WorkersTypeOK
  <2> QED
    BY <2>1, <2>2, <2>5, AgreementSent
<1>7. ASSUME NEW done \in BOOLEAN, TempMedia(done)
      PROVE  TokensRight'
  <2>1. /\ alive /\ asked < MaxAsked /\ asked' = asked + 1 /\ issued' = issued + 1
        /\ SendAll(Media(done))
        /\ UNCHANGED <<listened, masterTok, tok, kefu, toMaster, answer, started, exits>>
    BY <1>7 DEF TempMedia
  <2>2. /\ toWorker' \in [Children -> Seq(Messages)] /\ up' \in [Children -> BOOLEAN]
        /\ alive' \in BOOLEAN /\ \A w \in Children : up'[w] => up[w]
        /\ \A w \in Children : up'[w] => \A t : WillHold(w, t) => WillHold(w, t)'
    BY <1>1, <2>1, MessageFacts, SendingAll
  <2>3. issued' \in Tokens /\ issued' <= asked' /\ asked' <= MaxAsked /\ asked' \in Nat
    BY <1>1, <2>1, WorkerConstants DEF WorkersTyped, WorkersTypeOK, Tokens
  <2>4. WorkersTyped'
    BY <1>1, <2>1, <2>2, <2>3 DEF WorkersTyped, WorkersTypeOK
  <2> QED
    BY <2>1, <2>2, <2>4, AgreementKept
<1> QED
  BY <1>4, <1>5, <1>6, <1>7

(* A worker that has a token for itself has it to report, or is not heard. *)
LEMMA UpdatesRight ==
  ASSUME TokensRight, NEW w \in Children, UpdatedToken(w)
  PROVE  TokensRight'
<1>1. /\ answer[w] # NoToken
      /\ tok' = [tok EXCEPT ![w] = answer[w]]
      /\ toMaster' = IF listened[w] THEN [toMaster EXCEPT ![w] = Append(@, answer[w])] ELSE toMaster
      /\ answer' = [answer EXCEPT ![w] = NoToken]
      /\ UNCHANGED <<alive, up, listened, exits, masterTok, kefu, toWorker, started, issued, asked, uploads>>
  BY DEF UpdatedToken, workers, Handled
<1>2. /\ toMaster \in [Children -> Seq(Tokens)] /\ tok \in [Children -> Tokens \cup {NoToken}]
      /\ answer \in [Askers -> Tokens \cup {NoToken}] /\ w \in Askers
  BY DEF TokensRight, WorkersTyped, WorkersTypeOK, Askers
<1>3. answer[w] \in Tokens /\ Append(toMaster[w], answer[w]) \in Seq(Tokens)
      /\ Append(toMaster[w], answer[w]) # <<>>
  <2> DEFINE more == Append(toMaster[w], answer[w])
  <2>1. answer[w] \in Tokens /\ toMaster[w] \in Seq(Tokens)
    BY <1>1, <1>2
  <2>2. more \in Seq(Tokens) /\ Len(more) = Len(toMaster[w]) + 1 /\ Len(toMaster[w]) \in Nat
    BY <2>1
  <2>3. more # <<>>
    <3>1. Len(<<>>) = 0
      OBVIOUS
    <3> HIDE DEF more
    <3> QED
      BY <2>2, <3>1
  <2> QED
    BY <2>1, <2>2, <2>3
<1>4. /\ toMaster' \in [Children -> Seq(Tokens)] /\ tok' \in [Children -> Tokens \cup {NoToken}]
      /\ answer' \in [Askers -> Tokens \cup {NoToken}]
  BY <1>1, <1>2, <1>3
<1>5. WorkersTyped'
  BY <1>1, <1>4 DEF TokensRight, WorkersTyped, WorkersTypeOK
<1>6. ASSUME NEW v \in Children, listened'[v], toMaster'[v] = <<>>
      PROVE  v # w /\ toMaster[v] = <<>> /\ \A t : WillHold(v, t) => WillHold(v, t)'
  <2>1. v # w
    BY <1>1, <1>2, <1>3, <1>6
  <2> QED
    BY <1>1, <1>2, <1>6, <2>1 DEF WillHold
<1> QED
  BY <1>1, <1>5, <1>6, AgreementKept

(* What a worker receives it was to hold anyway. *)
LEMMA ReceivesRight ==
  ASSUME TokensRight, NEW w \in Children, Receive(w)
  PROVE  TokensRight'
<1> DEFINE m == Head(toWorker[w])
<1>1. /\ toWorker[w] # <<>>
      /\ tok' = IF m.type = "token" THEN [tok EXCEPT ![w] = m.token] ELSE tok
      /\ kefu' = IF m.type = "media" THEN [kefu EXCEPT ![w] = m.known] ELSE kefu
      /\ toWorker' = [toWorker EXCEPT ![w] = Tail(toWorker[w])]
      /\ UNCHANGED <<alive, up, listened, exits, masterTok, toMaster, answer, started, issued, asked, uploads>>
  BY DEF Receive, workers, wechat
<1>2. /\ toWorker \in [Children -> Seq(Messages)] /\ tok \in [Children -> Tokens \cup {NoToken}]
      /\ kefu \in [Children -> BOOLEAN]
  BY DEF TokensRight, WorkersTyped, WorkersTypeOK
<1>3. /\ m \in Messages /\ m = toWorker[w][1] /\ Len(toWorker[w]) \in Nat \ {0}
      /\ DOMAIN toWorker[w] = 1..Len(toWorker[w])
      /\ Tail(toWorker[w]) \in Seq(Messages)
      /\ DOMAIN Tail(toWorker[w]) = 1..(Len(toWorker[w]) - 1)
      /\ \A i \in 1..(Len(toWorker[w]) - 1) : Tail(toWorker[w])[i] = toWorker[w][i + 1]
  BY <1>1, <1>2
<1>4. m.type \in {"token", "media"} /\ (m.type = "token" => m.token \in Tokens /\ m = Token(m.token))
      /\ (m.type = "media" => m.known \in BOOLEAN)
  BY <1>3, MessageFacts DEF Messages
<1> HIDE DEF m
<1>5. /\ toWorker' \in [Children -> Seq(Messages)] /\ tok' \in [Children -> Tokens \cup {NoToken}]
      /\ kefu' \in [Children -> BOOLEAN]
  BY <1>1, <1>2, <1>3, <1>4
<1>6. WorkersTyped'
  BY <1>1, <1>5 DEF TokensRight, WorkersTyped, WorkersTypeOK
<1>7. /\ toWorker'[w] = Tail(toWorker[w])
      /\ \A v \in Children \ {w} : toWorker'[v] = toWorker[v] /\ tok'[v] = tok[v]
      /\ (m.type = "token" => tok'[w] = m.token) /\ (m.type = "media" => tok'[w] = tok[w])
  BY <1>1, <1>2
<1>8. ASSUME NEW t, WillHold(w, t)
      PROVE  WillHold(w, t)'
  <2>1. CASE \A i \in DOMAIN toWorker[w] : toWorker[w][i].type = "media"
    <3>1. ~\E i \in DOMAIN toWorker[w] : toWorker[w][i] = Token(t)
      BY <2>1 DEF Token
    <3>2. tok[w] = t /\ m.type = "media"
      BY <1>3, <1>8, <2>1, <3>1 DEF WillHold
    <3>3. \A i \in DOMAIN toWorker'[w] : toWorker'[w][i].type = "media"
      BY <1>3, <1>7, <2>1
    <3>4. tok'[w] = t
      BY <1>7, <3>2
    <3> QED
      BY <3>3, <3>4 DEF WillHold
  <2>2. CASE ~\A i \in DOMAIN toWorker[w] : toWorker[w][i].type = "media"
    <3>1. PICK i \in DOMAIN toWorker[w] :
            /\ toWorker[w][i] = Token(t)
            /\ \A j \in DOMAIN toWorker[w] : j > i => toWorker[w][j].type = "media"
      BY <1>8, <2>2 DEF WillHold
    <3>2. CASE i = 1
      <4>1. m.type = "token" /\ m.token = t
        BY <1>3, <3>1, <3>2 DEF Token
      <4>2. ASSUME NEW j \in DOMAIN toWorker'[w]
            PROVE  toWorker'[w][j].type = "media"
        <5>1. j \in 1..(Len(toWorker[w]) - 1)
          BY <1>3, <1>7, <4>2
        <5>2. j + 1 \in DOMAIN toWorker[w] /\ j + 1 > i
          BY <1>3, <3>2, <5>1
        <5>3. toWorker'[w][j] = toWorker[w][j + 1]
          BY <1>3, <1>7, <5>1
        <5> QED
          BY <3>1, <5>2, <5>3
      <4>3. tok'[w] = t
        BY <1>7, <4>1
      <4> QED
        BY <4>2, <4>3 DEF WillHold
    <3>3. CASE i # 1
      <4>1. i - 1 \in DOMAIN toWorker'[w] /\ toWorker'[w][i - 1] = Token(t)
        BY <1>3, <1>7, <3>1, <3>3
      <4>2. ASSUME NEW j \in DOMAIN toWorker'[w], j > i - 1
            PROVE  toWorker'[w][j].type = "media"
        <5>1. toWorker'[w][j] = toWorker[w][j + 1] /\ j + 1 \in DOMAIN toWorker[w]
          BY <1>3, <1>7, <4>2
        <5>2. j + 1 > i
          BY <1>3, <1>7, <3>1, <4>2
        <5> QED
          BY <3>1, <5>1, <5>2
      <4> QED
        BY <4>1, <4>2 DEF WillHold
    <3> QED
      BY <3>2, <3>3
  <2> QED
    BY <2>1, <2>2
<1>9. ASSUME NEW v \in Children, NEW t, WillHold(v, t)
      PROVE  WillHold(v, t)'
  <2>1. CASE v = w
    BY <1>8, <1>9, <2>1
  <2>2. CASE v # w
    <3>1. toWorker'[v] = toWorker[v] /\ tok'[v] = tok[v]
      BY <1>7, <2>2
    <3> QED
      BY <1>9, <3>1 DEF WillHold
  <2> QED
    BY <2>1, <2>2
<1> QED
  BY <1>1, <1>6, <1>9, AgreementKept

(* A worker that dies, or is forked again, is not one of those that agree. *)
LEMMA ForksRight ==
  ASSUME TokensRight, CheckChild \/ \E w \in Children : Exit(w)
  PROVE  TokensRight'
<1>1. /\ up \in [Children -> BOOLEAN] /\ listened \in [Children -> BOOLEAN]
      /\ tok \in [Children -> Tokens \cup {NoToken}] /\ kefu \in [Children -> BOOLEAN]
      /\ toWorker \in [Children -> Seq(Messages)] /\ toMaster \in [Children -> Seq(Tokens)]
      /\ answer \in [Askers -> Tokens \cup {NoToken}] /\ masterTok \in Tokens \cup {NoToken}
  BY DEF TokensRight, WorkersTyped, WorkersTypeOK
<1>2. /\ \A S : <<>> \in Seq(S)
      /\ \A t \in Tokens : <<Token(t)>> \in Seq(Messages)
  BY MessageFacts
<1>3. ASSUME NEW w \in Children, Exit(w)
      PROVE  TokensRight'
  <2>1. /\ up' = [up EXCEPT ![w] = FALSE]
        /\ tok' = [tok EXCEPT ![w] = NoToken] /\ kefu' = [kefu EXCEPT ![w] = FALSE]
        /\ toWorker' = [toWorker EXCEPT ![w] = <<>>]
        /\ toMaster' = toMaster \/ toMaster' = [toMaster EXCEPT ![w] = <<>>]
        /\ answer' = [answer EXCEPT ![w] = NoToken]
        /\ UNCHANGED <<alive, listened, masterTok, started, issued, asked, uploads>>
    BY <1>3 DEF Exit, Handled
  <2>2. /\ up' \in [Children -> BOOLEAN]
        /\ tok' \in [Children -> Tokens \cup {NoToken}] /\ kefu' \in [Children -> BOOLEAN]
    BY <1>1, <2>1
  <2>3. toWorker' \in [Children -> Seq(Messages)] /\ toMaster' \in [Children -> Seq(Tokens)]
    BY <1>1, <1>2, <2>1
  <2>4. answer' \in [Askers -> Tokens \cup {NoToken}]
    BY <1>1, <2>1
  <2>5. WorkersTyped'
    BY <2>1, <2>2, <2>3, <2>4 DEF TokensRight, WorkersTyped, WorkersTypeOK
  <2>6. \A v \in Children : up'[v] =>
          v # w /\ up[v] /\ toMaster'[v] = toMaster[v] /\ \A t : WillHold(v, t) => WillHold(v, t)'
    BY <1>1, <2>1 DEF WillHold
  <2> QED
    BY <2>1, <2>5, <2>6, AgreementKept
<1>4. ASSUME NEW W \in SUBSET { w \in Children : ~up[w] }, Fork(W),
             toWorker' = toWorker \/ (masterTok # NoToken /\ SendToken(W))
      PROVE  TokensRight'
  <2>1. /\ up' = [w \in Children |-> up[w] \/ w \in W]
        /\ listened' = [w \in Children |-> listened[w] /\ w \notin W]
        /\ UNCHANGED <<alive, masterTok, tok, kefu, toMaster, answer, started, issued, asked, uploads, exits>>
    BY <1>4 DEF Fork, wechat
  <2>2. up' \in [Children -> BOOLEAN] /\ listened' \in [Children -> BOOLEAN]
    BY <1>1, <2>1
  <2>3. /\ toWorker' \in [Children -> Seq(Messages)]
        /\ \A w \in Children \ W : toWorker'[w] = toWorker[w]
    BY <1>1, <1>2, <1>4 DEF SendToken
  <2>4. WorkersTyped'
    BY <2>1, <2>2, <2>3 DEF TokensRight, WorkersTyped, WorkersTypeOK
  <2>5. \A v \in Children : up'[v] /\ listened'[v] =>
          up[v] /\ listened[v] /\ \A t : WillHold(v, t) => WillHold(v, t)'
    BY <1>1, <2>1, <2>3 DEF WillHold
  <2> QED
    BY <2>1, <2>4, <2>5, AgreementKept
<1>5. CASE CheckChild
  BY <1>4, <1>5 DEF CheckChild
<1> QED
  BY <1>3, <1>5

(* WorkersTyped and OneToken are inductive. *)
LEMMA TokensStep == TokensRight /\ [ProcessNext]_processVars => TokensRight'
<1> SUFFICES ASSUME TokensRight, [ProcessNext]_processVars
             PROVE  TokensRight'
  OBVIOUS
<1>1. started \in BOOLEAN /\ {"init", "timer"} \cup Children = Askers
  BY DEF TokensRight, WorkersTyped, WorkersTypeOK, Askers
<1>2. CASE InitAsk \/ TimerAsk
  BY <1>1, <1>2, AsksRight DEF InitAsk, TimerAsk
<1>3. ASSUME NEW w \in Children, TryUpdateToken(w)
      PROVE  TokensRight'
  BY <1>1, <1>3, AsksRight DEF TryUpdateToken
<1>4. CASE UNCHANGED processVars
  <2>1. WorkersTyped'
    BY <1>4 DEF processVars, TokensRight, WorkersTyped, WorkersTypeOK
  <2>2. \A w \in Children : \A t : WillHold(w, t) => WillHold(w, t)'
    BY <1>4 DEF processVars, WillHold
  <2> QED
    BY <1>4, <2>1, <2>2, AgreementKept DEF processVars
<1> QED
  BY <1>2, <1>3, <1>4, SendsRight, UpdatesRight, ReceivesRight, ForksRight DEF ProcessNext

(* Whatever workers refresh at the same time, with the timer in between and  *)
(* workers dying: when all messages have arrived, the workers that were not  *)
(* forked again hold one token (sendAll, listenChild, tryUpdateToken).       *)
THEOREM OneTokenForAll == ProcessSpec => []TokensAgree
<1>1. TokensRight => TokensAgree
  <2> SUFFICES ASSUME TokensRight, alive, Quiet, NEW v \in Children, NEW w \in Children,
                      up[v], up[w], listened[v], listened[w]
               PROVE  tok[v] = tok[w]
    BY DEF TokensAgree
  <2>1. PICK t : \A x \in Children : up[x] /\ listened[x] /\ toMaster[x] = <<>> => WillHold(x, t)
    BY DEF TokensRight, OneToken
  <2>2. WillHold(v, t) /\ WillHold(w, t)
    BY <2>1 DEF Quiet
  <2>3. toWorker[v] = <<>> /\ toWorker[w] = <<>> /\ DOMAIN <<>> = {}
    BY DEF Quiet
  <2> QED
    BY <2>2, <2>3 DEF WillHold
<1> QED
  BY InitTokens, TokensStep, <1>1, PTL DEF ProcessSpec

(* The messages between the processes and what they keep are well typed. *)
THEOREM ProcessesTyped == ProcessSpec => []WorkersTypeOK
<1>1. TokensRight => WorkersTypeOK
  BY DEF TokensRight, WorkersTyped
<1> QED
  BY InitTokens, TokensStep, <1>1, PTL DEF ProcessSpec

--------------------------------------------------------------------------------
(* SystemMails *)

LoginPlaces == {"find", "get", "set", "insert", "unlock", "unlockAndThrow", "mail", "flag",
                "token", "sign", "session"}
AuditPlaces == {"update", "tell"}

AskRight(x) ==
  \/ x = Resting
  \/ x \in [about : Newcomers, at : LoginPlaces, passed : BOOLEAN]
  \/ x \in [about : Recommends, at : AuditPlaces, passed : BOOLEAN]

MailsTyped ==
  /\ account \in [Newcomers -> {"none", "new", "notified"}]
  /\ welcomes \in [Newcomers -> Nat]
  /\ sessions \subseteq Newcomers
  /\ verdict \in [Recommends -> {"none", "open", "passed", "rejected"}]
  /\ told \in [Recommends -> {"none", "passed", "rejected"}]
  /\ DOMAIN ask = MailRequests
  /\ \A r \in MailRequests : AskRight(ask[r])

(* What a request that has come so far has found or done *)
CameRight(x) ==
  /\ x.at \in {"unlock", "mail", "flag", "token", "sign", "session"} => account[x.about] # "none"
  /\ x.at = "flag" => welcomes[x.about] > 0

(* The row of a user whose logins have followed each other, and the one that *)
(* is on its way                                                             *)
Alone(x) == \A r, s \in MailRequests : ask[r].about = x /\ ask[s].about = x => r = s

LoginRight(g) ==
  /\ Alone(g)
  /\ account[g] = "none" => welcomes[g] = 0
  /\ account[g] = "notified" => welcomes[g] = 1
  /\ account[g] = "new" =>
       /\ welcomes[g] <= 1
       /\ \E r \in MailRequests : ask[r].about = g /\ ask[r].at \in {"unlock", "mail", "flag"}
  /\ \A r \in MailRequests : ask[r].about = g =>
       /\ ask[r].at \in {"unlock", "mail"} => account[g] = "new" /\ welcomes[g] = 0
       /\ ask[r].at = "flag" => account[g] = "new" /\ welcomes[g] = 1

ToldRight(i) ==
  /\ Alone(i)
  /\ \A r \in MailRequests : ask[r].about = i /\ ask[r].at = "tell" =>
       verdict[i] = Verdict(ask[r].passed)
  /\ (\A r \in MailRequests : ask[r].about = i => ask[r].at # "tell") =>
       told[i] = IF verdict[i] = "open" THEN "none" ELSE verdict[i]

MailInv ==
  /\ MailsTyped
  /\ \A r \in MailRequests : CameRight(ask[r])
  /\ \A g \in Newcomers : /\ account[g] = "notified" => welcomes[g] > 0
                          /\ account[g] = "none" => welcomes[g] = 0 /\ g \notin sessions
  /\ \A g \in Newcomers : g \notin blurred => LoginRight(g)
  /\ \A i \in Recommends : i \notin blurred => ToldRight(i)

(* A request that goes on, or ends *)
LEMMA GoesOn ==
  ASSUME MailsTyped, NEW r \in MailRequests, NEW l \in LoginPlaces \cup AuditPlaces \cup {"rest"},
         AskGoto(r, l)
  PROVE  /\ DOMAIN ask' = MailRequests
         /\ \A s \in MailRequests : s # r => ask'[s] = ask[s]
         /\ l = "rest" => ask'[r] = Resting
         /\ l # "rest" /\ ask[r] # Resting =>
              ask'[r].at = l /\ ask'[r].about = ask[r].about /\ ask'[r].passed = ask[r].passed
         /\ l \in LoginPlaces /\ ask[r].about \in Newcomers => AskRight(ask'[r])
         /\ l \in AuditPlaces /\ ask[r].about \in Recommends => AskRight(ask'[r])
<1>1. /\ ask' = [ask EXCEPT ![r] = IF l = "rest" THEN Resting ELSE [ask[r] EXCEPT !.at = l]]
      /\ DOMAIN ask = MailRequests /\ AskRight(ask[r])
  BY DEF AskGoto, MailsTyped
<1>2. /\ DOMAIN ask' = MailRequests
      /\ \A s \in MailRequests : s # r => ask'[s] = ask[s]
      /\ ask'[r] = IF l = "rest" THEN Resting ELSE [ask[r] EXCEPT !.at = l]
  BY <1>1
<1>3. Resting.about = NoOne /\ "rest" \notin LoginPlaces \cup AuditPlaces
  BY DEF Resting, LoginPlaces, AuditPlaces
<1> DEFINE x == ask[r]
<1> DEFINE y == ask'[r]
<1>4. x = Resting \/ x \in [about : Newcomers, at : LoginPlaces, passed : BOOLEAN]
                  \/ x \in [about : Recommends, at : AuditPlaces, passed : BOOLEAN]
  BY <1>1 DEF AskRight
<1>5. l # "rest" => y = [x EXCEPT !.at = l]
  BY <1>2
<1> HIDE DEF x, y
<1>6. l # "rest" /\ x # Resting => y.at = l /\ y.about = x.about /\ y.passed = x.passed
  BY <1>4, <1>5
<1>7. l \in LoginPlaces /\ x.about \in Newcomers => y \in [about : Newcomers, at : LoginPlaces, passed : BOOLEAN]
  <2> SUFFICES ASSUME l \in LoginPlaces, x.about \in Newcomers
               PROVE  y \in [about : Newcomers, at : LoginPlaces, passed : BOOLEAN]
    OBVIOUS
  <2>1. x # Resting /\ x \in [about : Newcomers, at : LoginPlaces, passed : BOOLEAN]
    BY <1>3, <1>4, MailConstants
  <2>2. y = [x EXCEPT !.at = l]
    BY <1>3, <1>5
  <2> QED
    BY <2>1, <2>2
<1>8. l \in AuditPlaces /\ x.about \in Recommends => y \in [about : Recommends, at : AuditPlaces, passed : BOOLEAN]
  <2> SUFFICES ASSUME l \in AuditPlaces, x.about \in Recommends
               PROVE  y \in [about : Recommends, at : AuditPlaces, passed : BOOLEAN]
    OBVIOUS
  <2>1. x # Resting /\ x \in [about : Recommends, at : AuditPlaces, passed : BOOLEAN]
    BY <1>3, <1>4, MailConstants
  <2>2. y = [x EXCEPT !.at = l]
    BY <1>3, <1>5
  <2> QED
    BY <2>1, <2>2
<1> QED
  BY <1>2, <1>6, <1>7, <1>8 DEF AskRight, x, y

(* Where a request is tells what it is about. *)
LEMMA WhatAbout ==
  ASSUME MailsTyped, NEW r \in MailRequests
  PROVE  /\ ask[r].at \in LoginPlaces => ask[r].about \in Newcomers /\ ask[r] # Resting
         /\ ask[r].at \in AuditPlaces =>
              ask[r].about \in Recommends /\ ask[r].passed \in BOOLEAN /\ ask[r] # Resting
         /\ ask[r].at = "rest" <=> ask[r] = Resting
         /\ ask[r].about \in Newcomers => ask[r].at \in LoginPlaces
         /\ ask[r].about \in Recommends => ask[r].at \in AuditPlaces
         /\ Resting.about = NoOne /\ Resting.at = "rest"
<1>1. AskRight(ask[r])
  BY DEF MailsTyped
<1>2. Resting.about = NoOne /\ Resting.at = "rest"
  BY DEF Resting
<1>3. LoginPlaces \cap AuditPlaces = {} /\ "rest" \notin LoginPlaces \cup AuditPlaces
  BY DEF LoginPlaces, AuditPlaces
<1> QED
  BY <1>1, <1>2, <1>3, MailConstants DEF AskRight

(* A request about x goes on: what holds of others stays. *)
LEMMA Elsewhere ==
  ASSUME MailInv, NEW r \in MailRequests,
         \A s \in MailRequests : s # r => ask'[s] = ask[s],
         ask'[r].about = ask[r].about \/ ask'[r] = Resting
  PROVE  /\ \A g \in Newcomers : g # ask[r].about /\ LoginRight(g)
               /\ account'[g] = account[g] /\ welcomes'[g] = welcomes[g] => LoginRight(g)'
         /\ \A i \in Recommends : i # ask[r].about /\ ToldRight(i)
               /\ verdict'[i] = verdict[i] /\ told'[i] = told[i] => ToldRight(i)'
         /\ \A x \in Newcomers \cup Recommends : Alone(x) => Alone(x)'
<1>1. Resting.about \notin Newcomers \cup Recommends
  BY MailConstants DEF Resting
<1>2. ASSUME NEW x \in Newcomers \cup Recommends, Alone(x)
      PROVE  Alone(x)'
  BY <1>1, <1>2 DEF Alone
<1>3. ASSUME NEW x \in Newcomers \cup Recommends, x # ask[r].about, NEW s \in MailRequests
      PROVE  /\ ask'[s].about = x <=> ask[s].about = x
             /\ ask[s].about = x => ask'[s] = ask[s]
  BY <1>1, <1>3
<1>4. ASSUME NEW g \in Newcomers, g # ask[r].about, LoginRight(g),
             account'[g] = account[g], welcomes'[g] = welcomes[g]
      PROVE  LoginRight(g)'
  BY <1>2, <1>3, <1>4 DEF LoginRight
<1>5. ASSUME NEW i \in Recommends, i # ask[r].about, ToldRight(i),
             verdict'[i] = verdict[i], told'[i] = told[i]
      PROVE  ToldRight(i)'
  BY <1>2, <1>3, <1>5 DEF ToldRight, Verdict
<1> QED
  BY <1>2, <1>4, <1>5

(* What a step of a login is allowed to do *)
LoginMoves(r, l, g) ==
  /\ ask[r].about = g /\ g \in Newcomers /\ ask[r] # Resting
  /\ l \in LoginPlaces \cup {"rest"} /\ AskGoto(r, l)
  /\ UNCHANGED <<verdict, told, blurred>>
  /\ account' \in [Newcomers -> {"none", "new", "notified"}] /\ welcomes' \in [Newcomers -> Nat]
  /\ sessions' \subseteq sessions \cup {g}
  /\ \A h \in Newcomers : h # g => account'[h] = account[h] /\ welcomes'[h] = welcomes[h]
  /\ account[g] # "none" => account'[g] # "none"
  /\ welcomes[g] > 0 => welcomes'[g] > 0
  /\ account'[g] = "notified" => welcomes'[g] > 0
  /\ account'[g] = "none" => welcomes'[g] = 0 /\ g \notin sessions'
  /\ l \in {"unlock", "mail", "flag", "token", "sign", "session"} => account'[g] # "none"
  /\ l = "flag" => welcomes'[g] > 0
  /\ g \notin blurred =>
       /\ account'[g] = "notified" => welcomes'[g] = 1
       /\ account'[g] = "new" => welcomes'[g] <= 1 /\ l \in {"unlock", "mail", "flag"}
       /\ l \in {"unlock", "mail"} => account'[g] = "new" /\ welcomes'[g] = 0
       /\ l = "flag" => account'[g] = "new" /\ welcomes'[g] = 1

(* A step of a login that is summarised by LoginMoves keeps the invariant. *)
LEMMA LoginKeeps ==
  ASSUME MailInv, NEW r \in MailRequests, NEW l, NEW g, LoginMoves(r, l, g)
  PROVE  MailInv'
<1>1. MailsTyped /\ l \in LoginPlaces \cup AuditPlaces \cup {"rest"} /\ AskGoto(r, l)
      /\ g \in Newcomers /\ ask[r].about = g /\ ask[r] # Resting
      /\ \A s \in MailRequests : CameRight(ask[s])
  BY DEF MailInv, LoginMoves
<1>2. /\ DOMAIN ask' = MailRequests
      /\ \A s \in MailRequests : s # r => ask'[s] = ask[s]
      /\ l = "rest" => ask'[r] = Resting
      /\ l # "rest" => ask'[r].at = l /\ ask'[r].about = g /\ AskRight(ask'[r])
  BY <1>1, GoesOn DEF LoginMoves
<1>3. Resting.at = "rest" /\ Resting.about = NoOne /\ AskRight(Resting)
  BY DEF Resting, AskRight
<1>4. MailsTyped'
  BY <1>1, <1>2, <1>3 DEF LoginMoves, MailsTyped
<1>5. ASSUME NEW s \in MailRequests
      PROVE  CameRight(ask[s])'
  <2>1. CASE s = r
    BY <1>2, <1>3, <2>1 DEF CameRight, LoginMoves
  <2>2. CASE s # r
    <3>1. CameRight(ask[s]) /\ ask'[s] = ask[s]
      BY <1>1, <1>2, <2>2
    <3>2. ask[s].at \in LoginPlaces => ask[s].about \in Newcomers
      BY <1>1, WhatAbout
    <3> QED
      BY <3>1, <3>2 DEF CameRight, LoginMoves, LoginPlaces
  <2> QED
    BY <2>1, <2>2
<1>6. ASSUME NEW h \in Newcomers
      PROVE  /\ account'[h] = "notified" => welcomes'[h] > 0
             /\ account'[h] = "none" => welcomes'[h] = 0 /\ h \notin sessions'
  BY DEF LoginMoves, MailInv
<1>7. ASSUME NEW h \in Newcomers, h \notin blurred'
      PROVE  LoginRight(h)'
  <2>1. LoginRight(h) /\ h \notin blurred
    BY <1>7 DEF MailInv, LoginMoves
  <2>2. CASE h # g
    BY <1>1, <1>2, <2>1, <2>2, Elsewhere DEF LoginMoves
  <2>3. CASE h = g
    <3>1. Alone(h)'
      BY <1>1, <1>2, <2>1, Elsewhere DEF LoginRight
    <3>2. \A s \in MailRequests : s # r => ask'[s].about # g
      BY <1>1, <1>2, <2>1, <2>3 DEF LoginRight, Alone
    <3>3. NoOne # g
      BY <1>1, MailConstants
    <3>4. \A s \in MailRequests : ask'[s].about = g => s = r /\ l # "rest" /\ ask'[s].at = l
      BY <1>2, <1>3, <3>2, <3>3
    <3>5. /\ account'[h] = "none" => welcomes'[h] = 0
          /\ account'[h] = "notified" => welcomes'[h] = 1
      BY <2>1, <2>3 DEF LoginMoves
    <3>6. account'[h] = "new" =>
            /\ welcomes'[h] <= 1
            /\ \E s \in MailRequests : ask'[s].about = h /\ ask'[s].at \in {"unlock", "mail", "flag"}
      BY <1>2, <2>1, <2>3 DEF LoginMoves
    <3>7. \A s \in MailRequests : ask'[s].about = h =>
            /\ ask'[s].at \in {"unlock", "mail"} => account'[h] = "new" /\ welcomes'[h] = 0
            /\ ask'[s].at = "flag" => account'[h] = "new" /\ welcomes'[h] = 1
      BY <2>1, <2>3, <3>4 DEF LoginMoves
    <3> QED
      BY <3>1, <3>5, <3>6, <3>7 DEF LoginRight
  <2> QED
    BY <2>2, <2>3
<1>8. ASSUME NEW i \in Recommends, i \notin blurred'
      PROVE  ToldRight(i)'
  <2>1. ToldRight(i) /\ verdict' = verdict /\ told' = told
    BY <1>8 DEF MailInv, LoginMoves
  <2>2. i # ask[r].about
    BY <1>1, MailConstants
  <2> QED
    BY <1>1, <1>2, <2>1, <2>2, Elsewhere
<1> QED
  BY <1>4, <1>5, <1>6, <1>7, <1>8 DEF MailInv

(* A login of one that is alone and whose user is new is about to welcome. *)
LEMMA OnItsWay ==
  ASSUME MailInv, NEW r \in MailRequests, ask[r].at \in LoginPlaces
  PROVE  LET g == ask[r].about IN
         /\ g \in Newcomers /\ ask[r] # Resting
         /\ account \in [Newcomers -> {"none", "new", "notified"}]
         /\ welcomes \in [Newcomers -> Nat]
         /\ ask[r].at \in {"unlock", "mail", "flag", "token", "sign", "session"} => account[g] # "none"
         /\ ask[r].at = "flag" => welcomes[g] > 0
         /\ account[g] = "notified" => welcomes[g] > 0
         /\ account[g] = "none" => welcomes[g] = 0 /\ g \notin sessions
         /\ g \notin blurred =>
              /\ account[g] = "notified" => welcomes[g] = 1
              /\ account[g] = "new" => welcomes[g] <= 1 /\ ask[r].at \in {"unlock", "mail", "flag"}
              /\ ask[r].at \in {"unlock", "mail"} => account[g] = "new" /\ welcomes[g] = 0
              /\ ask[r].at = "flag" => account[g] = "new" /\ welcomes[g] = 1
BY WhatAbout DEF MailInv, CameRight, LoginRight, Alone, MailsTyped

(* Every step of a login is summarised by LoginMoves. *)
LEMMA LoginSteps ==
  ASSUME MailInv, NEW r \in MailRequests,
         \/ Find(r) \/ Refused(r) \/ GetKey(r) \/ SetKey(r) \/ Insert(r) \/ UnlockCreate(r)
         \/ Mail(r) \/ Flag(r) \/ CreateToken(r) \/ Session(r)
  PROVE  MailInv'
<1> DEFINE g == ask[r].about
<1>1. ask[r].at \in LoginPlaces
  BY DEF Find, Refused, GetKey, SetKey, Insert, UnlockCreate, Mail, Flag, CreateToken, Session, At,
     LoginPlaces
<1>2. /\ g \in Newcomers /\ ask[r] # Resting
      /\ account \in [Newcomers -> {"none", "new", "notified"}]
      /\ welcomes \in [Newcomers -> Nat]
      /\ ask[r].at \in {"unlock", "mail", "flag", "token", "sign", "session"} => account[g] # "none"
      /\ ask[r].at = "flag" => welcomes[g] > 0
      /\ account[g] = "notified" => welcomes[g] > 0
      /\ account[g] = "none" => welcomes[g] = 0 /\ g \notin sessions
      /\ g \notin blurred =>
           /\ account[g] = "notified" => welcomes[g] = 1
           /\ account[g] = "new" => welcomes[g] <= 1 /\ ask[r].at \in {"unlock", "mail", "flag"}
           /\ ask[r].at \in {"unlock", "mail"} => account[g] = "new" /\ welcomes[g] = 0
           /\ ask[r].at = "flag" => account[g] = "new" /\ welcomes[g] = 1
  BY <1>1, OnItsWay
<1> SUFFICES \E l : LoginMoves(r, l, g)
  BY LoginKeeps
<1> HIDE DEF g
<1>3. g = ask[r].about
  BY DEF g
<1>4. account[g] \in {"none", "new", "notified"} /\ welcomes[g] \in Nat
  BY <1>2
<1>5. CASE Find(r)
  <2> DEFINE l == CASE account[g] = "none" -> "get"
                    [] account[g] = "new" -> "mail"
                    [] account[g] = "notified" -> "token"
  <2>1. AskGoto(r, l) /\ UNCHANGED <<loginVars, auditVars, blurred>> /\ ask[r].at = "find"
    BY <1>3, <1>5 DEF Find, At
  <2>2. LoginMoves(r, l, g)
    BY <1>2, <1>3, <1>4, <2>1 DEF LoginMoves, loginVars, auditVars, LoginPlaces
  <2> QED
    BY <2>2
<1>6. CASE Refused(r) \/ GetKey(r) \/ SetKey(r)
  <2>1. PICK l \in {"rest", "set", "insert"} : AskGoto(r, l)
    BY <1>6 DEF Refused, GetKey, SetKey
  <2>2. /\ UNCHANGED <<account, welcomes, sessions, verdict, told, blurred>>
        /\ ask[r].at \in {"get", "set"}
    BY <1>6 DEF Refused, GetKey, SetKey, loginVars, auditVars, At
  <2>3. LoginMoves(r, l, g)
    BY <1>2, <1>3, <1>4, <2>1, <2>2 DEF LoginMoves, LoginPlaces
  <2> QED
    BY <2>3
<1>7. CASE Insert(r)
  <2> DEFINE l == IF account[g] = "none" THEN "unlock" ELSE "unlockAndThrow"
  <2>1. /\ AskGoto(r, l) /\ UNCHANGED <<welcomes, sessions, verdict, told, blurred>>
        /\ account' = IF account[g] = "none" THEN [account EXCEPT ![g] = "new"] ELSE account
        /\ ask[r].at = "insert"
    BY <1>3, <1>7 DEF Insert, At, auditVars
  <2>2. /\ account' \in [Newcomers -> {"none", "new", "notified"}]
        /\ \A h \in Newcomers : h # g => account'[h] = account[h]
        /\ account'[g] = IF account[g] = "none" THEN "new" ELSE account[g]
    BY <1>2, <2>1
  <2>3. LoginMoves(r, l, g)
    BY <1>2, <1>3, <1>4, <2>1, <2>2 DEF LoginMoves, LoginPlaces
  <2> QED
    BY <2>3
<1>8. CASE UnlockCreate(r)
  <2> DEFINE l == IF ask[r].at = "unlock" THEN "mail" ELSE "rest"
  <2>1. /\ AskGoto(r, l) /\ UNCHANGED <<account, welcomes, sessions, verdict, told, blurred>>
        /\ ask[r].at \in {"unlock", "unlockAndThrow"}
    BY <1>8 DEF UnlockCreate, At, auditVars
  <2>2. LoginMoves(r, l, g)
    BY <1>2, <1>3, <1>4, <2>1 DEF LoginMoves, LoginPlaces
  <2> QED
    BY <2>2
<1>9. CASE Mail(r)
  <2>1. /\ AskGoto(r, "flag") /\ UNCHANGED <<account, sessions, verdict, told, blurred>>
        /\ welcomes' = [welcomes EXCEPT ![g] = @ + 1]
        /\ ask[r].at = "mail"
    BY <1>3, <1>9 DEF Mail, At, auditVars
  <2>2. /\ welcomes' \in [Newcomers -> Nat]
        /\ \A h \in Newcomers : h # g => welcomes'[h] = welcomes[h]
        /\ welcomes'[g] = welcomes[g] + 1
    BY <1>2, <2>1
  <2>3. LoginMoves(r, "flag", g)
    BY <1>2, <1>3, <1>4, <2>1, <2>2 DEF LoginMoves, LoginPlaces
  <2> QED
    BY <2>3
<1>10. CASE Flag(r)
  <2>1. /\ AskGoto(r, "token") /\ UNCHANGED <<welcomes, sessions, verdict, told, blurred>>
        /\ account' = [account EXCEPT ![g] = "notified"]
        /\ ask[r].at = "flag"
    BY <1>3, <1>10 DEF Flag, At, auditVars
  <2>2. /\ account' \in [Newcomers -> {"none", "new", "notified"}]
        /\ \A h \in Newcomers : h # g => account'[h] = account[h]
        /\ account'[g] = "notified"
    BY <1>2, <2>1
  <2>3. LoginMoves(r, "token", g)
    BY <1>2, <1>3, <1>4, <2>1, <2>2 DEF LoginMoves, LoginPlaces
  <2> QED
    BY <2>3
<1>11. CASE CreateToken(r)
  <2>1. PICK l \in {"sign", "session"} : AskGoto(r, l)
    BY <1>11 DEF CreateToken
  <2>2. /\ UNCHANGED <<account, welcomes, sessions, verdict, told, blurred>>
        /\ ask[r].at \in {"token", "sign"}
    BY <1>11 DEF CreateToken, auditVars, At
  <2>3. LoginMoves(r, l, g)
    BY <1>2, <1>3, <1>4, <2>1, <2>2 DEF LoginMoves, LoginPlaces
  <2> QED
    BY <2>3
<1>12. CASE Session(r)
  <2>1. /\ AskGoto(r, "rest") /\ UNCHANGED <<account, welcomes, verdict, told, blurred>>
        /\ sessions' = sessions \cup {g} /\ ask[r].at = "session"
    BY <1>3, <1>12 DEF Session, auditVars, At
  <2>2. LoginMoves(r, "rest", g)
    BY <1>2, <1>3, <1>4, <2>1 DEF LoginMoves, LoginPlaces
  <2> QED
    BY <2>2
<1> QED
  BY <1>5, <1>6, <1>7, <1>8, <1>9, <1>10, <1>11, <1>12

(* What a step about recommendations is allowed to do *)
LEMMA AuditSteps ==
  ASSUME MailInv, NEW r \in MailRequests, Update(r) \/ Tell(r)
  PROVE  MailInv'
<1> DEFINE i == ask[r].about
<1>1. ask[r].at \in AuditPlaces /\ MailsTyped
  BY DEF Update, Tell, At, AuditPlaces, MailInv
<1>2. i \in Recommends /\ ask[r].passed \in BOOLEAN /\ ask[r] # Resting /\ i \notin Newcomers
  BY <1>1, WhatAbout, MailConstants
<1>3. PICK l \in {"tell", "rest"} : /\ AskGoto(r, l)
                                    /\ l = "tell" => Update(r)
                                    /\ l = "rest" => Tell(r)
  BY DEF Update, Tell
<1>4. /\ DOMAIN ask' = MailRequests
      /\ \A s \in MailRequests : s # r => ask'[s] = ask[s]
      /\ l = "rest" => ask'[r] = Resting
      /\ l = "tell" => /\ ask'[r].at = "tell" /\ ask'[r].about = i /\ ask'[r].passed = ask[r].passed
                       /\ AskRight(ask'[r])
  BY <1>1, <1>2, <1>3, GoesOn DEF AuditPlaces
<1>5. UNCHANGED <<account, welcomes, sessions, blurred>>
  BY DEF Update, Tell, loginVars
<1>6. Resting.at = "rest" /\ Resting.about = NoOne /\ AskRight(Resting)
  BY DEF Resting, AskRight
<1> HIDE DEF i
<1>7. Verdict(ask[r].passed) \in {"passed", "rejected"}
  BY DEF Verdict
<1>8. /\ verdict' = IF l = "tell" THEN [verdict EXCEPT ![i] = Verdict(ask[r].passed)] ELSE verdict
      /\ told' = IF l = "rest" THEN [told EXCEPT ![i] = Verdict(ask[r].passed)] ELSE told
  BY <1>3 DEF Update, Tell, i
<1>9. MailsTyped'
  BY <1>1, <1>2, <1>3, <1>4, <1>5, <1>6, <1>7, <1>8 DEF MailsTyped
<1>10. ASSUME NEW s \in MailRequests
       PROVE  CameRight(ask[s])'
  <2>1. CASE s = r
    BY <1>3, <1>4, <1>6, <2>1 DEF CameRight
  <2>2. CASE s # r
    BY <1>4, <1>5, <2>2 DEF CameRight, MailInv
  <2> QED
    BY <2>1, <2>2
<1>11. ask'[r].about = ask[r].about \/ ask'[r] = Resting
  BY <1>3, <1>4 DEF i
<1>12. ASSUME NEW g \in Newcomers, g \notin blurred'
       PROVE  LoginRight(g)'
  <2>1. LoginRight(g) /\ g # ask[r].about
    BY <1>2, <1>5, <1>12 DEF MailInv, i
  <2> QED
    BY <1>4, <1>5, <1>11, <2>1, Elsewhere
<1>13. ASSUME NEW x \in Recommends, x \notin blurred'
       PROVE  ToldRight(x)'
  <2>1. ToldRight(x) /\ verdict \in [Recommends -> {"none", "open", "passed", "rejected"}]
        /\ told \in [Recommends -> {"none", "passed", "rejected"}]
    BY <1>1, <1>5, <1>13 DEF MailInv, MailsTyped
  <2>2. CASE x # i
    <3>1. verdict'[x] = verdict[x] /\ told'[x] = told[x] /\ x # ask[r].about
      BY <1>8, <2>1, <2>2 DEF i
    <3> QED
      BY <1>4, <1>11, <2>1, <3>1, Elsewhere
  <2>3. CASE x = i
    <3>1. Alone(x)'
      BY <1>4, <1>11, <2>1, Elsewhere DEF ToldRight
    <3>2. \A s \in MailRequests : s # r => ask'[s].about # i
      <4>1. ask[r].about = i
        BY DEF i
      <4> QED
        BY <1>4, <2>1, <2>3, <4>1 DEF ToldRight, Alone
    <3>3. CASE l = "tell"
      <4>1. verdict'[i] = Verdict(ask[r].passed)
        BY <1>2, <1>8, <2>1, <3>3
      <4>2. \A s \in MailRequests : ask'[s].about = i => s = r
        BY <3>2
      <4>3. ask'[r].at = "tell" /\ ask'[r].about = i /\ ask'[r].passed = ask[r].passed
        BY <1>4, <3>3
      <4> QED
        BY <2>3, <3>1, <4>1, <4>2, <4>3 DEF ToldRight, Verdict
    <3>4. CASE l = "rest"
      <4>1. verdict[i] = Verdict(ask[r].passed)
        <5>1. ask[r].at = "tell" /\ ask[r].about = i
          BY <1>3, <3>4 DEF Tell, At, i
        <5> QED
          BY <2>1, <2>3, <5>1 DEF ToldRight
      <4>2. told'[i] = Verdict(ask[r].passed) /\ verdict'[i] = verdict[i]
        BY <1>2, <1>8, <2>1, <3>4
      <4>3. \A s \in MailRequests : ask'[s].about # i
        BY <1>2, <1>4, <1>6, <3>2, <3>4, MailConstants
      <4>4. told'[i] = IF verdict'[i] = "open" THEN "none" ELSE verdict'[i]
        BY <1>7, <4>1, <4>2
      <4> QED
        BY <2>3, <3>1, <4>3, <4>4 DEF ToldRight
    <3> QED
      BY <1>3, <3>3, <3>4
  <2> QED
    BY <2>2, <2>3
<1>14. ASSUME NEW g \in Newcomers
       PROVE  /\ account'[g] = "notified" => welcomes'[g] > 0
              /\ account'[g] = "none" => welcomes'[g] = 0 /\ g \notin sessions'
  BY <1>5 DEF MailInv
<1> QED
  BY <1>9, <1>10, <1>12, <1>13, <1>14 DEF MailInv

(* A request is made about x. *)
LEMMA BeginKeeps ==
  ASSUME MailInv, NEW r \in MailRequests, NEW x, NEW l, NEW ok, ok \in BOOLEAN,
         BeginAsk(r, x, l, ok),
         (x \in Newcomers /\ l = "find") \/ (x \in Recommends /\ l = "update")
  PROVE  MailInv'
<1> DEFINE new == [about |-> x, at |-> l, passed |-> ok]
<1>1. /\ ask[r].at = "rest" /\ ask' = [ask EXCEPT ![r] = new]
      /\ blurred' = IF About(x) = {} THEN blurred ELSE blurred \cup {x}
      /\ UNCHANGED <<account, welcomes, sessions, verdict, told>>
      /\ MailsTyped
  BY DEF BeginAsk, At, loginVars, auditVars, MailInv
<1>2. ask[r] = Resting /\ ask[r].about = NoOne /\ NoOne \notin Newcomers \cup Recommends
  BY <1>1, WhatAbout, MailConstants
<1>3. AskRight(new) /\ new.at = l /\ new.about = x
  BY DEF AskRight, LoginPlaces, AuditPlaces
<1> HIDE DEF new
<1>4. /\ DOMAIN ask' = MailRequests /\ ask'[r] = new
      /\ \A s \in MailRequests : s # r => ask'[s] = ask[s]
  BY <1>1 DEF MailsTyped
<1>5. MailsTyped'
  BY <1>1, <1>3, <1>4 DEF MailsTyped
<1>6. ASSUME NEW s \in MailRequests
      PROVE  CameRight(ask[s])'
  BY <1>1, <1>3, <1>4 DEF CameRight, MailInv
<1>7. ASSUME x \notin blurred'
      PROVE  x \notin blurred /\ \A s \in MailRequests : ask[s].about # x
  BY <1>1, <1>7 DEF About
<1>8. ASSUME NEW y \in Newcomers \cup Recommends, y \notin blurred'
      PROVE  /\ y \notin blurred /\ (Alone(y) => Alone(y)')
             /\ \A s \in MailRequests : ask'[s].about = y =>
                  IF s = r THEN y = x /\ ask'[s].at = l ELSE ask'[s] = ask[s] /\ ask[s].about = y
             /\ y = x => \A s \in MailRequests : ask[s].about # x
             /\ \A s \in MailRequests : ask[s].about = y => ask'[s] = ask[s]
  BY <1>1, <1>2, <1>3, <1>4, <1>7, <1>8 DEF Alone
<1>9. ASSUME NEW g \in Newcomers, g \notin blurred'
      PROVE  LoginRight(g)'
  <2>1. LoginRight(g)
    BY <1>8, <1>9 DEF MailInv
  <2> QED
    BY <1>1, <1>8, <1>9, <2>1, MailConstants DEF LoginRight
<1>10. ASSUME NEW i \in Recommends, i \notin blurred'
       PROVE  ToldRight(i)'
  <2>1. ToldRight(i)
    BY <1>8, <1>10 DEF MailInv
  <2>2. x = i => l = "update"
    BY MailConstants
  <2>3. \A s \in MailRequests : ask'[s].about = i /\ ask'[s].at = "tell" =>
          ask[s].about = i /\ ask'[s] = ask[s]
    BY <1>8, <1>10, <2>2
  <2>4. \A s \in MailRequests : ask[s].about = i => ask'[s] = ask[s]
    BY <1>8, <1>10
  <2> QED
    BY <1>1, <1>8, <1>10, <2>1, <2>3, <2>4 DEF ToldRight, Verdict
<1>11. ASSUME NEW g \in Newcomers
       PROVE  /\ account'[g] = "notified" => welcomes'[g] > 0
              /\ account'[g] = "none" => welcomes'[g] = 0 /\ g \notin sessions'
  BY <1>1 DEF MailInv
<1> QED
  BY <1>5, <1>6, <1>9, <1>10, <1>11 DEF MailInv

(* A request ends in the middle; whom it was about is set aside. *)
LEMMA FailKeeps ==
  ASSUME MailInv, NEW r \in MailRequests, AskFails(r)
  PROVE  MailInv'
<1>1. /\ blurred' = blurred \cup {ask[r].about} /\ AskGoto(r, "rest")
      /\ UNCHANGED <<account, welcomes, sessions, verdict, told>>
      /\ MailsTyped
  BY DEF AskFails, loginVars, auditVars, MailInv
<1>2. /\ DOMAIN ask' = MailRequests /\ ask'[r] = Resting
      /\ \A s \in MailRequests : s # r => ask'[s] = ask[s]
  BY <1>1, GoesOn
<1>3. Resting.at = "rest" /\ AskRight(Resting)
  BY DEF Resting, AskRight
<1>4. MailsTyped'
  BY <1>1, <1>2, <1>3 DEF MailsTyped
<1>5. \A s \in MailRequests : CameRight(ask[s])'
  BY <1>1, <1>2, <1>3 DEF CameRight, MailInv
<1>6. \A g \in Newcomers : g \notin blurred' => LoginRight(g)'
  BY <1>1, <1>2, Elsewhere DEF MailInv
<1>7. \A i \in Recommends : i \notin blurred' => ToldRight(i)'
  BY <1>1, <1>2, Elsewhere DEF MailInv
<1> QED
  BY <1>1, <1>4, <1>5, <1>6, <1>7 DEF MailInv

(* Steps that leave every request where it is *)
LEMMA StillKeeps ==
  ASSUME MailInv, UNCHANGED <<account, welcomes, ask, blurred, told>>,
         sessions' \subseteq Newcomers,
         \A g \in Newcomers : account[g] = "none" => g \notin sessions',
         \/ UNCHANGED verdict
         \/ \E i \in Recommends : verdict[i] = "none" /\ verdict' = [verdict EXCEPT ![i] = "open"]
  PROVE  MailInv'
<1>1. MailsTyped
  BY DEF MailInv
<1>2. \A i \in Recommends : verdict'[i] = verdict[i] \/ (verdict[i] = "none" /\ verdict'[i] = "open")
  BY <1>1 DEF MailsTyped
<1>3. MailsTyped'
  BY <1>1 DEF MailsTyped
<1>4. \A s \in MailRequests : CameRight(ask[s])'
  BY DEF MailInv, CameRight
<1>5. \A g \in Newcomers : g \notin blurred' => LoginRight(g)'
  BY DEF MailInv, LoginRight, Alone
<1>6. ASSUME NEW i \in Recommends, i \notin blurred'
      PROVE  ToldRight(i)'
  <2>1. ToldRight(i)
    BY <1>6 DEF MailInv
  <2>2. CASE verdict'[i] = verdict[i]
    BY <2>1, <2>2 DEF ToldRight, Alone, Verdict
  <2>3. CASE verdict[i] = "none" /\ verdict'[i] = "open"
    <3>1. \A r \in MailRequests : ask[r].about = i => ask[r].at # "tell"
      BY <2>1, <2>3 DEF ToldRight, Verdict
    <3>2. told[i] = "none"
      BY <2>1, <2>3, <3>1 DEF ToldRight
    <3> QED
      BY <2>1, <2>3, <3>1, <3>2 DEF ToldRight, Alone
  <2> QED
    BY <1>2, <2>2, <2>3
<1> QED
  BY <1>3, <1>4, <1>5, <1>6 DEF MailInv

(* Every step preserves the invariant. *)
LEMMA MailsStep ==
  ASSUME MailInv, [MailNext]_mailVars
  PROVE  MailInv'
<1>1. ASSUME NEW r \in MailRequests, MailStep(r) \/ AskFails(r)
      PROVE  MailInv'
  BY <1>1, LoginSteps, AuditSteps, FailKeeps DEF MailStep
<1>2. ASSUME NEW r \in MailRequests, NEW g \in Newcomers, Login(r, g)
      PROVE  MailInv'
  <2>1. PICK p \in BOOLEAN : BeginAsk(r, g, "find", p)
    BY <1>2 DEF Login
  <2> QED
    BY <2>1, BeginKeeps
<1>3. ASSUME NEW r \in MailRequests, NEW i \in Recommends, NEW p \in BOOLEAN, Audit(r, i, p)
      PROVE  MailInv'
  BY <1>3, BeginKeeps DEF Audit
<1>4. /\ sessions \subseteq Newcomers
      /\ \A g \in Newcomers : account[g] = "none" => g \notin sessions
  BY DEF MailInv, MailsTyped
<1>5. ASSUME NEW i \in Recommends, Recommend(i)
      PROVE  MailInv'
  BY <1>4, <1>5, StillKeeps DEF Recommend, loginVars
<1>6. ASSUME NEW g \in Newcomers, KeyChanges(g)
      PROVE  MailInv'
  <2>1. /\ sessions' \subseteq Newcomers
        /\ \A h \in Newcomers : account[h] = "none" => h \notin sessions'
    BY <1>4, <1>6 DEF KeyChanges
  <2> QED
    BY <1>6, <2>1, StillKeeps DEF KeyChanges, auditVars
<1>7. CASE UNCHANGED mailVars
  BY <1>4, <1>7, StillKeeps DEF mailVars
<1> QED
  BY <1>1, <1>2, <1>3, <1>5, <1>6, <1>7 DEF MailNext

(* No message has been sent at the start. *)
LEMMA MailsBegin == MailInit => MailInv
<1>1. Resting.at = "rest" /\ Resting.about = NoOne
  BY DEF Resting
<1> QED
  BY <1>1, MailConstants DEF MailInit, MailInv, MailsTyped, AskRight, CameRight, LoginRight,
     ToldRight, Alone

(* The welcome is sent before the user is flagged as notified, and once when *)
(* the logins of that user follow each other; a session is that of a user;   *)
(* and when the audits of a point follow each other, its author was told the *)
(* verdict there is (auth.service.ts, PointRecommendService).                *)
THEOREM MailsAreSent == MailSpec => []MailsSent
<1>1. MailInv /\ [MailNext]_mailVars => MailInv'
  BY MailsStep
<1>2. MailInv => MailsSent
  <2> SUFFICES ASSUME MailInv
               PROVE  Welcomed /\ VerdictsTold
    BY DEF MailsSent
  <2>1. ASSUME NEW g \in Newcomers
        PROVE  /\ account[g] = "notified" => welcomes[g] > 0
               /\ account[g] = "none" => welcomes[g] = 0 /\ g \notin sessions
               /\ g \notin blurred => welcomes[g] <= 1
    <3>1. account[g] \in {"none", "new", "notified"}
      BY DEF MailInv, MailsTyped
    <3> QED
      BY <3>1 DEF MailInv, LoginRight
  <2>2. VerdictsTold
    BY DEF MailInv, ToldRight, VerdictsTold, About
  <2> QED
    BY <2>1, <2>2 DEF Welcomed
<1> QED
  BY <1>1, <1>2, MailsBegin, PTL DEF MailSpec

(* The keys of logins are those of guests. *)
MailKeysTyped ==
  creating \cup signing \subseteq Newcomers /\ blurred \subseteq Newcomers \cup Recommends

(* Keys, accounts, verdicts and messages are well typed. *)
THEOREM MailsKeepTypes == MailSpec => []MailsTypeOK
<1>1. MailInit => MailKeysTyped
  BY DEF MailInit, MailKeysTyped
<1>2. ASSUME MailInv, MailKeysTyped, [MailNext]_mailVars
      PROVE  MailKeysTyped'
  <2>1. ASSUME NEW r \in MailRequests, MailStep(r) \/ AskFails(r)
        PROVE  MailKeysTyped'
    <3>1. ask[r].at # "rest" => ask[r].about \in Newcomers \cup Recommends
      BY <1>2, WhatAbout DEF MailInv, MailsTyped, AskRight
    <3>2. ask[r].at \in LoginPlaces => ask[r].about \in Newcomers
      BY <1>2, WhatAbout DEF MailInv
    <3>3. CASE AskFails(r)
      BY <1>2, <3>1, <3>3 DEF AskFails, At, loginVars, MailKeysTyped
    <3>4. CASE SetKey(r)
      BY <1>2, <3>2, <3>4 DEF SetKey, At, LoginPlaces, MailKeysTyped
    <3>5. CASE CreateToken(r)
      BY <1>2, <3>2, <3>5 DEF CreateToken, At, LoginPlaces, MailKeysTyped
    <3>6. CASE Find(r) \/ Refused(r) \/ GetKey(r) \/ Insert(r) \/ UnlockCreate(r)
               \/ Mail(r) \/ Flag(r) \/ Session(r) \/ Update(r) \/ Tell(r)
      BY <1>2, <3>6 DEF Find, Refused, GetKey, Insert, UnlockCreate, Mail, Flag, Session, Update,
        Tell, loginVars, MailKeysTyped
    <3> QED
      BY <2>1, <3>3, <3>4, <3>5, <3>6 DEF MailStep
  <2>2. ASSUME NEW r \in MailRequests, NEW x \in Newcomers \cup Recommends, NEW l, NEW p,
               BeginAsk(r, x, l, p)
        PROVE  MailKeysTyped'
    BY <1>2, <2>2 DEF BeginAsk, loginVars, MailKeysTyped
  <2>3. CASE (\E i \in Recommends : Recommend(i)) \/ (\E g \in Newcomers : KeyChanges(g))
             \/ UNCHANGED mailVars
    BY <1>2, <2>3 DEF Recommend, KeyChanges, mailVars, loginVars, MailKeysTyped
  <2> QED
    BY <1>2, <2>1, <2>2, <2>3 DEF MailNext, Login, Audit
<1>3. MailInv /\ MailKeysTyped => MailsTypeOK
  BY DEF MailInv, MailsTyped, MailKeysTyped, MailsTypeOK
<1>4. MailInv /\ MailKeysTyped /\ [MailNext]_mailVars => (MailInv /\ MailKeysTyped)'
  BY <1>2, MailsStep
<1> QED
  BY MailsBegin, <1>1, <1>3, <1>4, PTL DEF MailSpec

--------------------------------------------------------------------------------
(* Tallies *)

Asking == {"exists", "read", "load", "add"}

TallyAsked(x) ==
  /\ x \in TallyReq
  /\ x.at # "idle" => x.thing \in Things /\ (x.op # "other" => x.user \in Guests)
  /\ x.at \in {"getSave", "message"} => x.op \in Feels
  /\ x.at \in Asking => x.op \notin Feels /\ x.thing \in Notes
  /\ x.at = "commit" => x.op = "share" /\ x.thing \in Notes
  /\ x.op = "other" => x.at \in Asking
  /\ x.at = "load" => x.got \in Nat
  /\ x.op \in Feels /\ x.at # "idle" => x.thing \in Points
  /\ x.at = "idle" => x = NoTally

TalliesTyped ==
  /\ TalliesTypeOK
  /\ DOMAIN treq = Tallying /\ \A r \in Tallying : TallyAsked(treq[r])

(* The shares of T by users U *)
Shared(U, T) == Sum(share, U \X T)

(* The notes whose share is counted in redis and not in the database yet *)
Raised(n) == { r \in Tallying : treq[r].at = "commit" /\ treq[r].thing = n }

FoundRight(x) == x.at = "write" /\ x.op \in Feels /\ x.found => Clocked(x.user, x.thing)

ClocksSummed ==
  \A q \in Points, f \in Feels :
    stats[q][f] = Sum(Field(clock, f, Guests \X Descendants(q)), Guests \X Descendants(q))

SharesSummed ==
  /\ \A q \in Points : stats[q].shares = Shared(Guests, Descendants(q))
  /\ \A u \in Guests : /\ mapShares[u] <= Shared({u}, Guests)
                       /\ u \notin stale => mapShares[u] = Shared({u}, Guests)
                       /\ userHash[u] # Nil => userHash[u] <= mapShares[u]

TalliesInv ==
  /\ TalliesTyped
  /\ ClocksSummed /\ SharesSummed /\ PassedByOwner
  /\ \A r \in Tallying : FoundRight(treq[r])

(* Of a note that is sure, redis has counted the shares and what is raised;  *)
(* whoever loads the hash has read what it says.                             *)
NoteRight(n) ==
  /\ SharesShown(n) >= Shared(Guests, {n}) + Cardinality(Raised(n))
  /\ ~SharesOverlap(n)
  /\ \A r \in Tallying : treq[r].thing = n =>
       /\ treq[r].at = "load" => treq[r].got = SharesShown(n)
       /\ treq[r].at = "add" => noteShares[n].cached # Nil

NotesRight == \A n \in Notes \ unsure : NoteRight(n)

--------------------------------------------------------------------------------
(* Sums *)

(* What is summed, or counted, is finite. *)
LEMMA TallySetsFinite ==
  /\ \A q : IsFiniteSet(Descendants(q)) /\ Descendants(q) \subseteq Points
  /\ \A U \in SUBSET Guests, T \in SUBSET Things : IsFiniteSet(T) /\ IsFiniteSet(U \X T)
  /\ \A n : IsFiniteSet(Raised(n)) /\ Cardinality(Raised(n)) \in Nat
<1>1. IsFiniteSet(Things)
  <2>1. IsFiniteSet(Guests \cup Points)
    BY TallyConstants, FS_Union
  <2>2. IsFiniteSet((Guests \cup Points) \cup Notes)
    BY <2>1, TallyConstants, FS_Union
  <2> QED
    BY <2>2 DEF Things
<1>2. ASSUME NEW U \in SUBSET Guests, NEW T \in SUBSET Things
      PROVE  IsFiniteSet(T) /\ IsFiniteSet(U \X T)
  BY <1>1, TallyConstants, FS_Subset, FS_Product
<1>3. \A q : IsFiniteSet(Descendants(q)) /\ Descendants(q) \subseteq Points
  BY TallyConstants, FS_Subset DEF Descendants
<1>4. \A n : IsFiniteSet(Raised(n)) /\ Cardinality(Raised(n)) \in Nat
  BY TallyConstants, FS_Subset, FS_CardinalityType DEF Raised
<1> QED
  BY <1>2, <1>3, <1>4

(* The shares of things by users have a sum. *)
LEMMA ShareTerms ==
  ASSUME NEW s, s \in [Guests \X Things -> Nat], NEW U \in SUBSET Guests, NEW T \in SUBSET Things
  PROVE  Terms(s, U \X T) /\ Sum(s, U \X T) \in Int
<1>1. \A x \in U \X T : s[x] \in Nat
  OBVIOUS
<1>2. \A x \in U \X T : s[x] \in Int
  BY <1>1
<1>3. Terms(s, U \X T)
  BY <1>2, TallySetsFinite DEF Terms
<1> QED
  BY <1>3, SumOfTerms

(* z differs from c nowhere but at y. *)
OnlyAt(y, c, z, S) == \A x \in S : x # y => z[x] = c[x]

(* z is s with one more share of t by u. *)
MoreShared(u, t, s, z) ==
  z[<<u, t>>] = s[<<u, t>>] + 1 /\ OnlyAt(<<u, t>>, s, z, Guests \X Things)

(* One more share is in the sums over its user and its thing, and in no other. *)
LEMMA SharedOnce ==
  ASSUME NEW s, s \in [Guests \X Things -> Nat], NEW u \in Guests, NEW t \in Things,
         NEW z, MoreShared(u, t, s, z),
         NEW U \in SUBSET Guests, NEW T \in SUBSET Things
  PROVE  Sum(z, U \X T) = IF u \in U /\ t \in T THEN Sum(s, U \X T) + 1 ELSE Sum(s, U \X T)
<1>1. Terms(s, U \X T) /\ Sum(s, U \X T) \in Int
  BY ShareTerms
<1>2. /\ s[<<u, t>>] \in Nat /\ z[<<u, t>>] = s[<<u, t>>] + 1
      /\ \A x \in Guests \X Things : x # <<u, t>> => z[x] = s[x]
  BY DEF MoreShared, OnlyAt
<1>3. CASE u \in U /\ t \in T
  <2>1. <<u, t>> \in U \X T /\ z[<<u, t>>] \in Int
    BY <1>2, <1>3
  <2>2. \A y \in (U \X T) \ {<<u, t>>} : z[y] = s[y]
    BY <1>2
  <2>3. Sum(z, U \X T) = Sum(s, U \X T) + z[<<u, t>>] - s[<<u, t>>]
    <3> DEFINE S == U \X T
    <3> DEFINE x == <<u, t>>
    <3>1. Terms(s, S) /\ x \in S /\ z[x] \in Int /\ \A y \in S \ {x} : z[y] = s[y]
      BY <1>1, <2>1, <2>2
    <3> HIDE DEF S, x
    <3>2. Sum(z, S) = Sum(s, S) + z[x] - s[x]
      BY <3>1, SumWithOne
    <3> QED
      BY <3>2 DEF S, x
  <2> QED
    BY <1>1, <1>2, <1>3, <2>3
<1>4. CASE ~(u \in U /\ t \in T)
  <2>1. \A y \in U \X T : z[y] = s[y]
    BY <1>2, <1>4
  <2> QED
    BY <1>1, <1>4, <2>1, SumOfEquals
<1> QED
  BY <1>3, <1>4

(* The visits of one kind at the saves that descend from q have a sum. *)
LEMMA ClockTerms ==
  ASSUME NEW c, c \in [Guests \X Points -> ClockRow], NEW f \in Feels, NEW q
  PROVE  /\ Terms(Field(c, f, Guests \X Descendants(q)), Guests \X Descendants(q))
         /\ Sum(Field(c, f, Guests \X Descendants(q)), Guests \X Descendants(q)) \in Int
<1> DEFINE S == Guests \X Descendants(q)
<1>1. S \subseteq Guests \X Points
  BY DEF Descendants
<1>2. \A x \in S : c[x][f] \in Nat
  <2>1. \A x \in S : c[x] \in ClockRow
    BY <1>1
  <2> QED
    BY <2>1 DEF ClockRow
<1>3. \A x \in S : Field(c, f, S)[x] \in Int
  BY <1>2 DEF Field
<1>4. IsFiniteSet(S)
  BY TallySetsFinite, TallyConstants, FS_Product
<1>5. Terms(Field(c, f, S), S)
  BY <1>3, <1>4 DEF Terms
<1> QED
  BY <1>5, SumOfTerms

(* z is c with one more visit of u at p, of kind e. *)
Visited(u, p, e, c, z) ==
  /\ z[<<u, p>>][e] = c[<<u, p>>][e] + 1
  /\ \A h \in Feels : h # e => z[<<u, p>>][h] = c[<<u, p>>][h]
  /\ OnlyAt(<<u, p>>, c, z, Guests \X Points)

(* The visits of one kind at the saves that descend from q *)
Visits(c, f, q) == Sum(Field(c, f, Guests \X Descendants(q)), Guests \X Descendants(q))

(* One more visit is in the sum of its kind over the saves it belongs to. *)
LEMMA ClockedOnce ==
  ASSUME NEW c, c \in [Guests \X Points -> ClockRow], NEW u \in Guests, NEW p \in Points,
         NEW e \in Feels, NEW f \in Feels, NEW q, NEW z,
         Visited(u, p, e, c, z)
  PROVE  Visits(z, f, q) = IF e = f /\ p \in Descendants(q) THEN Visits(c, f, q) + 1
                           ELSE Visits(c, f, q)
<1> DEFINE S == Guests \X Descendants(q)
<1> DEFINE F == Field(c, f, S)
<1> DEFINE G == Field(z, f, S)
<1>1. Terms(F, S) /\ Sum(F, S) \in Int
  BY ClockTerms
<1>2. c[<<u, p>>] \in ClockRow /\ \A x \in Guests \X Points : x # <<u, p>> => z[x] = c[x]
  BY DEF OnlyAt, Visited
<1>3. /\ c[<<u, p>>][e] \in Nat /\ z[<<u, p>>][e] = c[<<u, p>>][e] + 1
      /\ \A h \in Feels : h # e => z[<<u, p>>][h] = c[<<u, p>>][h]
  BY <1>2 DEF ClockRow, Visited
<1>4. S \subseteq Guests \X Points
  BY DEF Descendants
<1>5. \A x \in S : F[x] = c[x][f] /\ G[x] = z[x][f]
  BY DEF Field
<1>6. <<u, p>> \in S <=> p \in Descendants(q)
  OBVIOUS
<1> HIDE DEF F, G, S
<1>7. CASE e = f /\ p \in Descendants(q)
  <2>1. <<u, p>> \in S /\ G[<<u, p>>] \in Int /\ G[<<u, p>>] = F[<<u, p>>] + 1 /\ F[<<u, p>>] \in Nat
    BY <1>3, <1>5, <1>6, <1>7
  <2>2. \A y \in S \ {<<u, p>>} : G[y] = F[y]
    BY <1>2, <1>4, <1>5
  <2>3. Sum(G, S) = Sum(F, S) + G[<<u, p>>] - F[<<u, p>>]
    BY <1>1, <2>1, <2>2, SumWithOne
  <2> QED
    BY <1>1, <1>7, <2>1, <2>3 DEF F, G, S, Visits
<1>8. CASE ~(e = f /\ p \in Descendants(q))
  <2>1. \A y \in S : G[y] = F[y]
    BY <1>2, <1>3, <1>4, <1>5, <1>6, <1>8
  <2>2. Sum(G, S) = Sum(F, S)
    BY <1>1, <2>1, SumOfEquals
  <2> QED
    BY <1>8, <2>2 DEF F, G, S, Visits
<1> QED
  BY <1>7, <1>8

--------------------------------------------------------------------------------
(* Requests *)

(* A request that has ended asks for nothing. *)
LEMMA NoTallyAsked ==
  /\ NoTally \in TallyReq /\ NoTally.at = "idle" /\ NoTally.user = Nil /\ NoTally.thing = Nil
  /\ NoTally.op = "share" /\ TallyAsked(NoTally)
BY DEF NoTally, TallyReq, TallyAsked, Feels, Asking

(* A request that goes on still asks for what it asked, and the others do. *)
LEMMA GotoAsked ==
  ASSUME TalliesTyped, NEW r \in Tallying, treq[r].at # "idle",
         NEW at, at \in {"idle", "find", "message", "exists", "read", "add", "commit"},
         TallyGoto(r, at),
         at \in {"find", "message"} => treq[r].op \in Feels,
         at \in {"exists", "read", "add"} => treq[r].op \notin Feels /\ treq[r].thing \in Notes,
         at = "commit" => treq[r].op = "share" /\ treq[r].thing \in Notes
  PROVE  /\ DOMAIN treq' = Tallying
         /\ \A s \in Tallying : TallyAsked(treq'[s])
         /\ \A s \in Tallying : s # r => treq'[s] = treq[s]
         /\ treq'[r].at = at
         /\ at # "idle" => treq'[r].op = treq[r].op /\ treq'[r].user = treq[r].user
                           /\ treq'[r].thing = treq[r].thing
<1> DEFINE x == treq[r]
<1> DEFINE y == treq'[r]
<1>1. TallyAsked(x) /\ DOMAIN treq = Tallying
  BY DEF TalliesTyped
<1>2. /\ treq' = [treq EXCEPT ![r] = IF at = "idle" THEN NoTally ELSE [treq[r] EXCEPT !.at = at]]
  BY DEF TallyGoto
<1>3. /\ DOMAIN treq' = Tallying /\ \A s \in Tallying : s # r => treq'[s] = treq[s]
      /\ y = IF at = "idle" THEN NoTally ELSE [x EXCEPT !.at = at]
  BY <1>1, <1>2
<1> HIDE DEF x, y
<1>4. CASE at = "idle"
  <2>1. y = NoTally
    BY <1>3, <1>4
  <2> QED
    BY <1>3, <1>4, <2>1, NoTallyAsked DEF TalliesTyped, y
<1>5. CASE at # "idle"
  <2>1. /\ y \in TallyReq /\ y.at = at /\ y.op = x.op /\ y.user = x.user /\ y.thing = x.thing
    BY <1>1, <1>3, <1>5 DEF TallyAsked, TallyReq
  <2>2. /\ x.at # "idle"
        /\ at \in {"find", "message"} => x.op \in Feels
        /\ at \in {"exists", "read", "add"} => x.op \notin Feels /\ x.thing \in Notes
        /\ at = "commit" => x.op = "share" /\ x.thing \in Notes
    BY DEF x
  <2>3. "share" \notin Feels /\ "other" \notin Feels
    BY DEF Feels
  <2>4. TallyAsked(y)
    BY <1>1, <1>5, <2>1, <2>2, <2>3 DEF TallyAsked, Asking
  <2> QED
    BY <1>3, <2>1, <2>4 DEF TalliesTyped, x, y
<1> QED
  BY <1>4, <1>5

(* Steps that write no row of visits or shares, and no statistic of these *)
LEMMA TalliesStill ==
  ASSUME TalliesInv, UNCHANGED <<clock, share, stats, mapShares, passed, stale>>, TalliesTyped',
         \A r \in Tallying : FoundRight(treq[r])',
         \A u \in Guests : userHash'[u] \in {userHash[u], Nil, mapShares[u]}
  PROVE  TalliesInv'
<1>1. UNCHANGED <<clock, share, stats, mapShares, passed, stale>>
  OBVIOUS
<1>2. ClocksSummed /\ SharesSummed /\ PassedByOwner
  BY DEF TalliesInv
<1>3. \A q : Descendants(q)' = Descendants(q)
  BY DEF Descendants
<1>4. ClocksSummed'
  BY <1>1, <1>2 DEF ClocksSummed, Field, Descendants
<1>5. PassedByOwner'
  BY <1>1, <1>2 DEF PassedByOwner, Clocked
<1>7. \A u \in Guests : userHash'[u] # Nil => userHash'[u] <= mapShares[u]
  <2> SUFFICES ASSUME NEW u \in Guests, userHash'[u] # Nil
               PROVE  userHash'[u] <= mapShares[u]
    OBVIOUS
  <2>1. mapShares[u] \in Nat
    BY DEF TalliesInv, TalliesTyped, TalliesTypeOK
  <2>2. userHash[u] # Nil => userHash[u] <= mapShares[u]
    BY <1>2 DEF SharesSummed
  <2>3. userHash'[u] \in {userHash[u], Nil, mapShares[u]}
    OBVIOUS
  <2>4. CASE userHash'[u] = userHash[u]
    BY <2>2, <2>4
  <2>5. CASE userHash'[u] = mapShares[u]
    BY <2>1, <2>5
  <2> QED
    BY <2>3, <2>4, <2>5
<1>8. SharesSummed'
  <2>1. \A q \in Points : stats'[q].shares = Shared(Guests, Descendants(q))'
    BY <1>1, <1>2 DEF SharesSummed, Shared, Descendants
  <2>2. \A u \in Guests : /\ mapShares'[u] <= Shared({u}, Guests)'
                          /\ u \notin stale' => mapShares'[u] = Shared({u}, Guests)'
                          /\ userHash'[u] # Nil => userHash'[u] <= mapShares'[u]
    BY <1>1, <1>2, <1>7 DEF SharesSummed, Shared
  <2> QED
    BY <2>1, <2>2 DEF SharesSummed
<1> QED
  BY <1>4, <1>5, <1>8 DEF TalliesInv

(* A request that begins has found and written nothing. *)
LEMMA BeginTallyKeeps ==
  ASSUME TalliesInv, unsure' \subseteq Notes, NEW r \in Tallying,
         \/ \E u \in Guests, t \in Things, op \in Feels \cup {"share"} : BeginTally(r, u, t, op)
         \/ \E n \in Notes : BeginNoteStat(r, n)
  PROVE  TalliesInv'
<1>1. treq[r] = NoTally /\ UNCHANGED <<exists, tallyRows, userHash, stale>>
  BY DEF BeginTally, BeginNoteStat
<1>2. PICK x : /\ treq' = [treq EXCEPT ![r] = x] /\ TallyAsked(x)
               /\ x.at \in {"find", "getSave", "exists"}
  <2>1. CASE \E u \in Guests, t \in Things, op \in Feels \cup {"share"} : BeginTally(r, u, t, op)
    <3>1. PICK u \in Guests, t \in Things, op \in Feels \cup {"share"} : BeginTally(r, u, t, op)
      BY <2>1
    <3> DEFINE x == [NoTally EXCEPT !.at = IF op = "share" THEN "find" ELSE "getSave",
                                    !.op = op, !.user = u, !.thing = t]
    <3>2. treq' = [treq EXCEPT ![r] = x] /\ (op \in Feels => t \in Points)
      BY <3>1 DEF BeginTally
    <3>3. /\ x \in TallyReq /\ x.op = op /\ x.user = u /\ x.thing = t
          /\ x.at = IF op = "share" THEN "find" ELSE "getSave"
      BY NoTallyAsked DEF TallyReq
    <3> HIDE DEF x
    <3>4. TallyAsked(x)
      BY <3>2, <3>3 DEF TallyAsked, Asking, Feels
    <3> QED
      BY <3>2, <3>3, <3>4
  <2>2. CASE \E n \in Notes : BeginNoteStat(r, n)
    <3>1. PICK n \in Notes : BeginNoteStat(r, n)
      BY <2>2
    <3> DEFINE x == [NoTally EXCEPT !.at = "exists", !.op = "other", !.thing = n]
    <3>2. treq' = [treq EXCEPT ![r] = x]
      BY <3>1 DEF BeginNoteStat
    <3>3. x \in TallyReq /\ x.op = "other" /\ x.thing = n /\ x.at = "exists"
      BY NoTallyAsked DEF TallyReq, Things
    <3> HIDE DEF x
    <3>4. TallyAsked(x)
      BY <3>3 DEF TallyAsked, Asking, Feels, Things
    <3> QED
      BY <3>2, <3>3, <3>4
  <2> QED
    BY <2>1, <2>2
<1>4. TalliesTyped /\ \A s \in Tallying : FoundRight(treq[s])
  BY DEF TalliesInv
<1>5. /\ DOMAIN treq' = Tallying /\ treq'[r] = x
      /\ \A s \in Tallying : s # r => treq'[s] = treq[s]
  BY <1>2, <1>4 DEF TalliesTyped
<1>6. TalliesTypeOK'
  <2>1. treq \in [Tallying -> TallyReq] => treq' \in [Tallying -> TallyReq]
    BY <1>2 DEF TallyAsked
  <2> QED
    BY <1>1, <1>4, <2>1 DEF TalliesTyped, TalliesTypeOK, tallyRows
<1>7. TalliesTyped'
  BY <1>2, <1>4, <1>5, <1>6 DEF TalliesTyped
<1>8. \A s \in Tallying : FoundRight(treq[s])'
  BY <1>1, <1>2, <1>4, <1>5 DEF FoundRight, Clocked, tallyRows
<1> QED
  BY <1>1, <1>7, <1>8, TalliesStill DEF tallyRows

(* The steps of a request that write no row *)
Rowless(r) ==
  \/ GetSave(r) \/ FindRow(r) \/ TellOwner(r) \/ TallyFails(r)
  \/ BeginNoteShares(r) \/ FindNoteShares(r) \/ ReadNoteShares(r) \/ LoadNoteShares(r)
  \/ RaiseNoteShares(r)

(* What the statistic of a note says is a number. *)
LEMMA ShownNumber ==
  ASSUME TalliesTypeOK, NEW n \in Notes
  PROVE  /\ noteShares[n] \in NoteStat /\ SharesShown(n) \in Nat
         /\ \A k \in {0, 1} : SharesAdded(n, k) \in Nat
BY DEF TalliesTypeOK, NoteStat, SharesShown, SharesAdded

(* Where a request that writes no row goes *)
LEMMA QuietGoes ==
  ASSUME TalliesTyped, NEW r \in Tallying, Rowless(r)
  PROVE  /\ DOMAIN treq' = Tallying /\ \A s \in Tallying : TallyAsked(treq'[s])
         /\ \A s \in Tallying : s # r => treq'[s] = treq[s]
         /\ treq'[r].at = "write" /\ treq'[r].op \in Feels /\ treq'[r].found =>
              Clocked(treq'[r].user, treq'[r].thing)
         /\ \E z : treq' = [treq EXCEPT ![r] = z]
<1>1. TallyAsked(treq[r]) /\ TalliesTypeOK /\ DOMAIN treq = Tallying
  BY DEF TalliesTyped
<1>2. "share" \notin Feels /\ "other" \notin Feels
  BY DEF Feels
<1>3. CASE \/ GetSave(r) \/ TellOwner(r) \/ TallyFails(r)
           \/ BeginNoteShares(r) \/ FindNoteShares(r) \/ LoadNoteShares(r) \/ RaiseNoteShares(r)
  <2>1. PICK at \in {"idle", "find", "exists", "read", "add", "commit"} :
          /\ TallyGoto(r, at) /\ treq[r].at # "idle"
          /\ at = "find" => treq[r].at = "getSave"
          /\ at = "exists" => treq[r].op = "share" /\ treq[r].thing \in Notes
          /\ at \in {"read", "add"} => treq[r].at \in Asking
          /\ at = "commit" => treq[r].op = "share" /\ treq[r].at \in Asking
    <3>1. CASE GetSave(r) \/ TellOwner(r) \/ TallyFails(r)
      BY <3>1 DEF GetSave, TellOwner, TallyFails, TallyAt
    <3>2. CASE BeginNoteShares(r) \/ FindNoteShares(r)
      BY <3>2 DEF BeginNoteShares, FindNoteShares, TallyAt, Asking
    <3>3. CASE LoadNoteShares(r) \/ RaiseNoteShares(r)
      BY <3>3 DEF LoadNoteShares, RaiseNoteShares, TallyAt, Asking
    <3> QED
      BY <1>3, <3>1, <3>2, <3>3
  <2>2. /\ at \in {"find", "message"} => treq[r].op \in Feels
        /\ at \in {"exists", "read", "add"} => treq[r].op \notin Feels /\ treq[r].thing \in Notes
        /\ at = "commit" => treq[r].op = "share" /\ treq[r].thing \in Notes
    BY <1>1, <1>2, <2>1 DEF TallyAsked
  <2>3. /\ DOMAIN treq' = Tallying /\ \A s \in Tallying : TallyAsked(treq'[s])
        /\ \A s \in Tallying : s # r => treq'[s] = treq[s]
        /\ treq'[r].at = at
    BY <2>1, <2>2, GotoAsked
  <2>4. \E z : treq' = [treq EXCEPT ![r] = z]
    BY <2>1 DEF TallyGoto
  <2> QED
    BY <2>3, <2>4
<1>4. CASE FindRow(r)
  <2> DEFINE x == treq[r]
  <2> DEFINE y == treq'[r]
  <2> DEFINE b == IF x.op = "share" THEN share[<<x.user, x.thing>>] > 0 ELSE Clocked(x.user, x.thing)
  <2>1. treq' = [treq EXCEPT ![r].at = "write", ![r].found = b] /\ x.at = "find"
    BY <1>4 DEF FindRow, TallyAt
  <2>2. b \in BOOLEAN
    <3>1. x.op # "other"
      BY <1>1, <2>1 DEF TallyAsked, Asking
    <3>2. x.user \in Guests /\ x.thing \in Things
      BY <1>1, <2>1, <3>1 DEF TallyAsked
    <3>3. share[<<x.user, x.thing>>] \in Nat
      BY <1>1, <3>2 DEF TalliesTypeOK
    <3>4. (share[<<x.user, x.thing>>] > 0) \in BOOLEAN
      BY <3>3
    <3>5. Clocked(x.user, x.thing) \in BOOLEAN
      BY DEF Clocked
    <3> HIDE DEF x
    <3> QED
      BY <3>4, <3>5
  <2>3. x.op # "share" => b = Clocked(x.user, x.thing)
    OBVIOUS
  <2> HIDE DEF b
  <2>4. /\ y = [x EXCEPT !.at = "write", !.found = b] /\ DOMAIN treq' = Tallying
        /\ \A s \in Tallying : s # r => treq'[s] = treq[s]
        /\ \E z : treq' = [treq EXCEPT ![r] = z]
    BY <1>1, <2>1
  <2>5. TallyAsked(x)
    BY <1>1
  <2> HIDE DEF x, y
  <2>6. /\ y \in TallyReq /\ y.at = "write" /\ y.op = x.op /\ y.user = x.user /\ y.thing = x.thing
        /\ y.found = b
    BY <2>2, <2>4, <2>5 DEF TallyAsked, TallyReq
  <2>7. TallyAsked(y)
    BY <2>1, <2>5, <2>6 DEF TallyAsked, Asking
  <2>8. y.op \in Feels => x.op # "share"
    BY <2>6 DEF Feels
  <2> QED
    BY <2>3, <2>4, <2>6, <2>7, <2>8 DEF TalliesTyped, x, y
<1>5. CASE ReadNoteShares(r)
  <2> DEFINE x == treq[r]
  <2> DEFINE y == treq'[r]
  <2> DEFINE v == SharesShown(treq[r].thing)
  <2>1. treq' = [treq EXCEPT ![r].at = "load", ![r].got = v] /\ x.at = "read"
    BY <1>5 DEF ReadNoteShares, TallyAt
  <2>2. v \in Nat
    <3>1. x.thing \in Notes
      BY <1>1, <2>1 DEF TallyAsked, Asking
    <3> QED
      BY <1>1, <3>1, ShownNumber
  <2>4. /\ y = [x EXCEPT !.at = "load", !.got = v] /\ DOMAIN treq' = Tallying
        /\ \A s \in Tallying : s # r => treq'[s] = treq[s]
        /\ \E z : treq' = [treq EXCEPT ![r] = z]
    BY <1>1, <2>1
  <2>5. TallyAsked(x)
    BY <1>1
  <2> HIDE DEF x, y, v
  <2>6. /\ y \in TallyReq /\ y.at = "load" /\ y.op = x.op /\ y.user = x.user /\ y.thing = x.thing
        /\ y.got = v
    BY <2>2, <2>4, <2>5 DEF TallyAsked, TallyReq
  <2>7. TallyAsked(y)
    BY <2>1, <2>2, <2>5, <2>6 DEF TallyAsked, Asking
  <2> QED
    BY <2>4, <2>6, <2>7 DEF TalliesTyped, x, y
<1> QED
  BY <1>3, <1>4, <1>5 DEF Rowless

(* The statistic of a note stays one. *)
LEMMA QuietStats ==
  ASSUME TalliesTyped, NEW r \in Tallying, Rowless(r)
  PROVE  noteShares' \in [Notes -> NoteStat]
<1>1. TallyAsked(treq[r]) /\ TalliesTypeOK /\ noteShares \in [Notes -> NoteStat]
  BY DEF TalliesTyped, TalliesTypeOK
<1>2. CASE LoadNoteShares(r) \/ RaiseNoteShares(r)
  <2>1. PICK v \in Nat : noteShares' = [noteShares EXCEPT ![treq[r].thing].cached = v]
    <3>1. CASE LoadNoteShares(r)
      BY <1>1, <3>1 DEF LoadNoteShares, TallyAt, TallyAsked
    <3>2. CASE RaiseNoteShares(r)
      <4>1. treq[r].thing \in Notes
        BY <1>1, <3>2 DEF RaiseNoteShares, TallyAt, TallyAsked, Asking
      <4> QED
        BY <1>1, <3>2, <4>1, ShownNumber DEF RaiseNoteShares
    <3> QED
      BY <1>2, <3>1, <3>2
  <2> QED
    BY <1>1, <2>1 DEF NoteStat
<1>3. CASE UNCHANGED noteShares
  BY <1>1, <1>3
<1> QED
  BY <1>2, <1>3
  DEF Rowless, GetSave, FindRow, TellOwner, TallyFails, BeginNoteShares, FindNoteShares,
      ReadNoteShares, tallyRows

(* A request that goes on to where no row is written *)
LEMMA QuietSteps ==
  ASSUME TalliesInv, unsure' \subseteq Notes, NEW r \in Tallying, Rowless(r)
  PROVE  TalliesInv'
<1>1. /\ UNCHANGED <<exists, clock, share, stats, mapShares, userHash, passed, stale>>
      /\ TalliesTyped /\ \A s \in Tallying : FoundRight(treq[s])
  BY DEF Rowless, GetSave, FindRow, TellOwner, TallyFails, BeginNoteShares, FindNoteShares,
         ReadNoteShares, LoadNoteShares, RaiseNoteShares, tallyRows, TalliesInv
<1>4. /\ DOMAIN treq' = Tallying /\ \A s \in Tallying : TallyAsked(treq'[s])
      /\ \A s \in Tallying : s # r => treq'[s] = treq[s]
      /\ treq'[r].at = "write" /\ treq'[r].op \in Feels /\ treq'[r].found =>
           Clocked(treq'[r].user, treq'[r].thing)
      /\ \E z : treq' = [treq EXCEPT ![r] = z]
  BY <1>1, QuietGoes
<1>5. TalliesTypeOK'
  <2>1. treq' = [s \in Tallying |-> treq'[s]]
    BY <1>1, <1>4 DEF TalliesTyped, TalliesTypeOK
  <2>2. treq' \in [Tallying -> TallyReq]
    BY <1>4, <2>1 DEF TallyAsked
  <2>3. noteShares' \in [Notes -> NoteStat]
    BY <1>1, QuietStats
  <2> QED
    BY <1>1, <2>2, <2>3 DEF TalliesTyped, TalliesTypeOK
<1>6. TalliesTyped'
  BY <1>4, <1>5 DEF TalliesTyped
<1>7. ASSUME NEW s \in Tallying
      PROVE  FoundRight(treq[s])'
  <2>1. CASE s = r
    <3>1. FoundRight(treq'[r])
      BY <1>4 DEF FoundRight
    <3> QED
      BY <1>1, <2>1, <3>1 DEF FoundRight, Clocked
  <2>2. CASE s # r
    <3>1. FoundRight(treq[s]) /\ treq'[s] = treq[s]
      BY <1>1, <1>4, <2>2
    <3> QED
      BY <1>1, <3>1 DEF FoundRight, Clocked
  <2> QED
    BY <2>1, <2>2
<1> QED
  BY <1>1, <1>6, <1>7, TalliesStill

(* A save is deleted, a statistic is loaded or written back: no row of visits *)
(* or shares is written.                                                      *)
LEMMA OtherSteps ==
  ASSUME TalliesInv, UNCHANGED <<clock, share, stats, mapShares, passed, treq, stale>>,
         exists' \subseteq Points, unsure' \subseteq Notes, noteShares' \in [Notes -> NoteStat],
         \/ UNCHANGED userHash
         \/ \E u \in Guests : userHash[u] = Nil /\ userHash' = [userHash EXCEPT ![u] = mapShares[u]]
  PROVE  TalliesInv'
<1>1. TalliesTyped /\ \A s \in Tallying : FoundRight(treq[s])
  BY DEF TalliesInv
<1>2. /\ userHash' \in [Guests -> Nat \cup {Nil}]
      /\ \A u \in Guests : userHash'[u] \in {userHash[u], Nil, mapShares[u]}
  BY <1>1 DEF TalliesTyped, TalliesTypeOK
<1>3. TalliesTyped'
  BY <1>1, <1>2 DEF TalliesTyped, TalliesTypeOK
<1>4. \A s \in Tallying : FoundRight(treq[s])'
  BY <1>1 DEF FoundRight, Clocked
<1> QED
  BY <1>2, <1>3, <1>4, TalliesStill

--------------------------------------------------------------------------------
(* Clocking in *)

(* A visit adds one to its row and to the statistic of the created point, *)
(* and passes the save of the owner at the first visit.                   *)
LEMMA WriteClockKeeps ==
  ASSUME TalliesInv, unsure' \subseteq Notes, NEW r \in Tallying, WriteClock(r)
  PROVE  TalliesInv'
<1> DEFINE u == treq[r].user
<1> DEFINE p == treq[r].thing
<1> DEFINE e == treq[r].op
<1> DEFINE o == Origin[treq[r].thing]
<1>1. /\ TalliesTyped /\ TalliesTypeOK /\ ClocksSummed /\ SharesSummed /\ PassedByOwner
      /\ \A s \in Tallying : FoundRight(treq[s])
  BY DEF TalliesInv, TalliesTyped
<1>2. /\ treq[r].at = "write" /\ u \in Guests /\ p \in Points /\ e \in Feels /\ o \in Points
      /\ treq[r].found => Clocked(u, p)
      /\ ~treq[r].found => ~Clocked(u, p)
  <2>1. treq[r].at = "write" /\ e \in Feels /\ (treq[r].found \/ MayInsertClock(u, p))
    BY DEF WriteClock, TallyAt
  <2>2. TallyAsked(treq[r]) /\ FoundRight(treq[r])
    BY <1>1 DEF TalliesTyped
  <2>3. u \in Guests /\ p \in Points
    BY <2>1, <2>2 DEF TallyAsked, Asking
  <2> QED
    BY <2>1, <2>2, <2>3, TallyConstants DEF FoundRight, MayInsertClock
<1>3. /\ clock' = [clock EXCEPT ![<<u, p>>][e] = @ + 1]
      /\ passed' = IF ~treq[r].found /\ u = OwnerOf[p] THEN passed \cup {p} ELSE passed
      /\ stats' = [stats EXCEPT ![o][e] = @ + 1]
      /\ TallyGoto(r, "message")
      /\ UNCHANGED <<exists, share, noteShares, mapShares, userHash, tbegun, stale>>
  BY DEF WriteClock, OriginOf
<1>4. /\ DOMAIN treq' = Tallying /\ \A s \in Tallying : TallyAsked(treq'[s])
      /\ \A s \in Tallying : s # r => treq'[s] = treq[s]
      /\ treq'[r].at = "message"
  BY <1>1, <1>2, <1>3, GotoAsked
<1>5. treq' \in [Tallying -> TallyReq]
  <2>1. \E z : treq' = [treq EXCEPT ![r] = z]
    BY <1>3 DEF TallyGoto
  <2>2. treq' = [s \in Tallying |-> treq'[s]]
    BY <1>1, <2>1 DEF TalliesTypeOK
  <2> QED
    BY <1>4, <2>2 DEF TallyAsked
<1> HIDE DEF u, p, e, o
<1>6. /\ clock \in [Guests \X Points -> ClockRow] /\ stats \in [Points -> StatRow]
      /\ o = Origin[p]
  BY <1>1 DEF TalliesTypeOK, o, p
<1>7. /\ clock' \in [Guests \X Points -> ClockRow]
      /\ clock'[<<u, p>>][e] = clock[<<u, p>>][e] + 1 /\ clock[<<u, p>>][e] \in Nat
      /\ \A f \in Feels : clock'[<<u, p>>][f] >= clock[<<u, p>>][f]
      /\ \A f \in Feels : f # e => clock'[<<u, p>>][f] = clock[<<u, p>>][f]
      /\ \A x \in Guests \X Points : x # <<u, p>> => clock'[x] = clock[x]
  <2>1. clock[<<u, p>>] \in ClockRow /\ clock'[<<u, p>>] = [clock[<<u, p>>] EXCEPT ![e] = @ + 1]
        /\ \A x \in Guests \X Points : x # <<u, p>> => clock'[x] = clock[x]
    BY <1>2, <1>3, <1>6
  <2>2. clock[<<u, p>>][e] \in Nat /\ clock[<<u, p>>][e] + 1 \in Nat
    BY <1>2, <2>1 DEF ClockRow
  <2>3. clock'[<<u, p>>] \in ClockRow
    BY <1>2, <2>1, <2>2 DEF ClockRow
  <2>4. clock' \in [Guests \X Points -> ClockRow]
    BY <1>2, <1>3, <1>6, <2>1, <2>3
  <2>5. /\ clock'[<<u, p>>][e] = clock[<<u, p>>][e] + 1
        /\ \A f \in Feels : clock'[<<u, p>>][f] >= clock[<<u, p>>][f]
        /\ \A f \in Feels : f # e => clock'[<<u, p>>][f] = clock[<<u, p>>][f]
    BY <1>2, <2>1, <2>2 DEF ClockRow
  <2> QED
    BY <2>1, <2>2, <2>4, <2>5
<1>8. /\ stats' \in [Points -> StatRow]
      /\ stats'[o][e] = stats[o][e] + 1 /\ stats'[o].shares = stats[o].shares
      /\ \A f \in Feels : f # e => stats'[o][f] = stats[o][f]
      /\ \A q \in Points : q # o => stats'[q] = stats[q]
  <2>1. stats[o] \in StatRow /\ stats'[o] = [stats[o] EXCEPT ![e] = @ + 1]
        /\ \A q \in Points : q # o => stats'[q] = stats[q]
    BY <1>2, <1>3, <1>6
  <2>2. stats[o][e] \in Nat /\ stats[o][e] + 1 \in Nat
    BY <1>2, <2>1 DEF StatRow
  <2>3. stats'[o] \in StatRow
    BY <1>2, <2>1, <2>2 DEF StatRow
  <2>4. stats' \in [Points -> StatRow]
    BY <1>2, <1>3, <1>6, <2>1, <2>3
  <2>5. /\ stats'[o][e] = stats[o][e] + 1 /\ stats'[o].shares = stats[o].shares
        /\ \A f \in Feels : f # e => stats'[o][f] = stats[o][f]
    BY <1>2, <2>1 DEF StatRow, Feels
  <2> QED
    BY <2>1, <2>4, <2>5
<1>9. TalliesTyped'
  <2>1. passed' \subseteq Points
    BY <1>1, <1>2, <1>3 DEF TalliesTypeOK
  <2> QED
    BY <1>1, <1>3, <1>4, <1>5, <1>7, <1>8, <2>1 DEF TalliesTyped, TalliesTypeOK
<1>10. ASSUME NEW q \in Points, NEW f \in Feels
       PROVE  stats'[q][f] =
                Sum(Field(clock', f, Guests \X Descendants(q)), Guests \X Descendants(q))
  <2> DEFINE S == Guests \X Descendants(q)
  <2>1. stats[q][f] = Sum(Field(clock, f, S), S)
    BY <1>1 DEF ClocksSummed
  <2>2. Sum(Field(clock', f, S), S) =
          IF e = f /\ p \in Descendants(q) THEN Sum(Field(clock, f, S), S) + 1
          ELSE Sum(Field(clock, f, S), S)
    <3>1. PICK c, z, v, x, k : c = clock /\ z = clock' /\ v = u /\ x = p /\ k = e
      OBVIOUS
    <3>2. c \in [Guests \X Points -> ClockRow] /\ v \in Guests /\ x \in Points /\ k \in Feels
      BY <1>2, <1>6, <3>1
    <3>3. Visited(v, x, k, c, z)
      BY <1>7, <3>1 DEF OnlyAt, Visited
    <3>4. Visits(z, f, q) = IF k = f /\ x \in Descendants(q) THEN Visits(c, f, q) + 1
                            ELSE Visits(c, f, q)
      BY <3>2, <3>3, ClockedOnce
    <3> QED
      BY <3>1, <3>4 DEF Visits
  <2>3. p \in Descendants(q) <=> q = o
    BY <1>2, <1>6 DEF Descendants
  <2> HIDE DEF S
  <2>4. stats'[q][f] = IF e = f /\ q = o THEN stats[q][f] + 1 ELSE stats[q][f]
    BY <1>8
  <2>5. stats'[q][f] = Sum(Field(clock', f, S), S)
    BY <2>1, <2>2, <2>3, <2>4
  <2> QED
    BY <2>5 DEF S
<1>11. ClocksSummed'
  BY <1>10 DEF ClocksSummed, Descendants
<1>12. \A q \in Points : stats'[q].shares = stats[q].shares
  BY <1>8
<1>14. SharesSummed'
  BY <1>1, <1>3, <1>12 DEF SharesSummed, Shared, Descendants
<1>15. /\ \A v \in Guests, x \in Points : <<v, x>> # <<u, p>> => (Clocked(v, x)' <=> Clocked(v, x))
       /\ \A v \in Guests, x \in Points : Clocked(v, x) => Clocked(v, x)'
  <2>1. ASSUME NEW v \in Guests, NEW x \in Points
        PROVE  /\ <<v, x>> # <<u, p>> => (Clocked(v, x)' <=> Clocked(v, x))
               /\ Clocked(v, x) => Clocked(v, x)'
    <3>1. /\ Clocked(v, x)' <=> \E f \in Feels : clock'[<<v, x>>][f] > 0
          /\ Clocked(v, x) <=> \E f \in Feels : clock[<<v, x>>][f] > 0
      BY DEF Clocked
    <3>2. CASE <<v, x>> # <<u, p>>
      BY <1>7, <3>1, <3>2
    <3>3. CASE <<v, x>> = <<u, p>>
      <4>1. \A f \in Feels : clock'[<<u, p>>][f] >= clock[<<u, p>>][f]
                             /\ clock[<<u, p>>][f] \in Nat /\ clock'[<<u, p>>][f] \in Nat
        BY <1>2, <1>6, <1>7 DEF ClockRow
      <4>2. \A f \in Feels : clock[<<u, p>>][f] > 0 => clock'[<<u, p>>][f] > 0
        BY <4>1
      <4> QED
        BY <3>1, <3>3, <4>2
    <3> QED
      BY <3>2, <3>3
  <2> QED
    BY <2>1
<1>16. \E f \in Feels : clock'[<<u, p>>][f] > 0
  BY <1>2, <1>7
<1>17. PassedByOwner'
  <2> SUFFICES ASSUME NEW x \in Points, OwnerOf[x] \in Guests
               PROVE  x \in passed' <=> Clocked(OwnerOf[x], x)'
    BY DEF PassedByOwner
  <2>1. x \in passed <=> Clocked(OwnerOf[x], x)
    BY <1>1 DEF PassedByOwner
  <2>2. CASE <<OwnerOf[x], x>> # <<u, p>>
    <3>1. Clocked(OwnerOf[x], x)' <=> Clocked(OwnerOf[x], x)
      BY <1>15, <2>2
    <3>2. x \in passed' <=> x \in passed
      BY <1>3, <2>2
    <3> QED
      BY <2>1, <3>1, <3>2
  <2>3. CASE <<OwnerOf[x], x>> = <<u, p>>
    <3>1. OwnerOf[x] = u /\ x = p
      BY <2>3
    <3>2. Clocked(OwnerOf[x], x)'
      <4>1. \E f \in Feels : clock'[<<OwnerOf[x], x>>][f] > 0
        BY <1>16, <3>1
      <4> QED
        BY <4>1 DEF Clocked
    <3>3. x \in passed'
      BY <1>2, <1>3, <2>1, <3>1
    <3> QED
      BY <3>2, <3>3
  <2> QED
    BY <2>2, <2>3
<1>18. ASSUME NEW s \in Tallying
       PROVE  FoundRight(treq[s])'
  <2>1. CASE s = r
    BY <1>4, <2>1 DEF FoundRight
  <2>2. CASE s # r
    <3>1. FoundRight(treq[s]) /\ treq'[s] = treq[s] /\ TallyAsked(treq[s])
      BY <1>1, <1>4, <2>2 DEF TalliesTyped
    <3>2. ASSUME treq[s].at = "write", treq[s].op \in Feels, treq[s].found
          PROVE  \E f \in Feels : clock'[<<treq[s].user, treq[s].thing>>][f] > 0
      <4>1. treq[s].user \in Guests /\ treq[s].thing \in Points /\ Clocked(treq[s].user, treq[s].thing)
        BY <3>1, <3>2 DEF FoundRight, TallyAsked, Asking
      <4>2. PICK v \in Guests, x \in Points : v = treq[s].user /\ x = treq[s].thing
        BY <4>1
      <4>3. Clocked(v, x)'
        BY <1>15, <4>1, <4>2
      <4>4. \E f \in Feels : clock'[<<v, x>>][f] > 0
        BY <4>3 DEF Clocked
      <4> QED
        BY <4>2, <4>4
    <3> QED
      BY <3>1, <3>2 DEF FoundRight, Clocked
  <2> QED
    BY <2>1, <2>2
<1> QED
  BY <1>9, <1>11, <1>14, <1>17, <1>18 DEF TalliesInv

--------------------------------------------------------------------------------
(* Sharing *)

(* A request that counts no visit keeps what is said of visits. *)
LEMMA ClocksStill ==
  ASSUME TalliesInv, NEW r \in Tallying, UNCHANGED <<clock, passed>>,
         \A q \in Points, f \in Feels : stats'[q][f] = stats[q][f],
         \A s \in Tallying : s # r => treq'[s] = treq[s],
         treq'[r].at # "write"
  PROVE  ClocksSummed' /\ PassedByOwner' /\ \A s \in Tallying : FoundRight(treq[s])'
<1>1. ClocksSummed /\ PassedByOwner /\ \A s \in Tallying : FoundRight(treq[s])
  BY DEF TalliesInv
<1>2. ClocksSummed'
  BY <1>1 DEF ClocksSummed, Field, Descendants
<1>3. PassedByOwner'
  BY <1>1 DEF PassedByOwner, Clocked
<1>4. ASSUME NEW s \in Tallying
      PROVE  FoundRight(treq[s])'
  <2>1. CASE s = r
    BY <2>1 DEF FoundRight
  <2>2. CASE s # r
    <3>1. FoundRight(treq[s]) /\ treq'[s] = treq[s]
      BY <1>1, <2>2
    <3> QED
      BY <3>1 DEF FoundRight, Clocked
  <2> QED
    BY <2>1, <2>2
<1> QED
  BY <1>2, <1>3, <1>4

(* One more share of t by u *)
LEMMA SharesUp ==
  ASSUME TalliesTypeOK, NEW u \in Guests, NEW t \in Things,
         share' = [share EXCEPT ![<<u, t>>] = @ + 1]
  PROVE  /\ share' \in [Guests \X Things -> Nat]
         /\ \A U \in SUBSET Guests, T \in SUBSET Things :
              Shared(U, T)' = IF u \in U /\ t \in T THEN Shared(U, T) + 1 ELSE Shared(U, T)
<1>1. share \in [Guests \X Things -> Nat]
  BY DEF TalliesTypeOK
<1>2. /\ share' \in [Guests \X Things -> Nat]
      /\ share'[<<u, t>>] = share[<<u, t>>] + 1
      /\ \A x \in Guests \X Things : x # <<u, t>> => share'[x] = share[x]
  BY <1>1
<1>3. ASSUME NEW U \in SUBSET Guests, NEW T \in SUBSET Things
      PROVE  Shared(U, T)' = IF u \in U /\ t \in T THEN Shared(U, T) + 1 ELSE Shared(U, T)
  <2>1. PICK s, z : s = share /\ z = share'
    OBVIOUS
  <2>2. s \in [Guests \X Things -> Nat] /\ MoreShared(u, t, s, z)
    BY <1>1, <1>2, <2>1 DEF MoreShared, OnlyAt
  <2>3. Sum(z, U \X T) = IF u \in U /\ t \in T THEN Sum(s, U \X T) + 1 ELSE Sum(s, U \X T)
    BY <2>2, SharedOnce
  <2> QED
    BY <2>1, <2>3 DEF Shared
<1> QED
  BY <1>2, <1>3

(* The sums that are compared with a statistic are numbers. *)
LEMMA SharedNumbers ==
  ASSUME TalliesTypeOK
  PROVE  /\ \A U \in SUBSET Guests, T \in SUBSET Things : Shared(U, T) \in Int
         /\ \A n : Cardinality(Raised(n)) \in Nat
         /\ \A n \in Notes : {n} \in SUBSET Things
         /\ \A u \in Guests : {u} \in SUBSET Guests /\ mapShares[u] \in Nat
                              /\ (userHash[u] # Nil => userHash[u] \in Nat)
         /\ Guests \in SUBSET Things /\ \A q : Descendants(q) \in SUBSET Things
<1>1. share \in [Guests \X Things -> Nat]
  BY DEF TalliesTypeOK
<1>2. \A U \in SUBSET Guests, T \in SUBSET Things : Shared(U, T) \in Int
  BY <1>1, ShareTerms DEF Shared
<1> QED
  BY <1>2, TallySetsFinite DEF TalliesTypeOK, Things, Descendants

(* Where a request that shares stands, and where it goes *)
LEMMA ShareGoes ==
  ASSUME TalliesInv, NEW r \in Tallying, treq[r].at \in {"write", "commit"}, treq[r].op = "share",
         TallyGoto(r, "idle")
  PROVE  /\ treq[r].user \in Guests /\ treq[r].thing \in Things
         /\ treq' \in [Tallying -> TallyReq]
         /\ DOMAIN treq' = Tallying /\ \A s \in Tallying : TallyAsked(treq'[s])
         /\ \A s \in Tallying : s # r => treq'[s] = treq[s]
         /\ treq'[r].at = "idle"
<1>1. TalliesTyped /\ TallyAsked(treq[r]) /\ treq[r].at # "idle"
  BY DEF TalliesInv, TalliesTyped
<1>2. treq[r].user \in Guests /\ treq[r].thing \in Things
  BY <1>1 DEF TallyAsked
<1>3. /\ DOMAIN treq' = Tallying /\ \A s \in Tallying : TallyAsked(treq'[s])
      /\ \A s \in Tallying : s # r => treq'[s] = treq[s]
      /\ treq'[r].at = "idle"
  BY <1>1, GotoAsked
<1>4. treq' \in [Tallying -> TallyReq]
  <2>1. \E z : treq' = [treq EXCEPT ![r] = z]
    BY DEF TallyGoto
  <2>2. treq' = [s \in Tallying |-> treq'[s]]
    BY <1>1, <2>1 DEF TalliesTyped, TalliesTypeOK
  <2> QED
    BY <1>3, <2>2 DEF TallyAsked
<1> QED
  BY <1>2, <1>3, <1>4

(* A share of a map or a point adds one to its row and to one statistic. *)
LEMMA WriteShareKeeps ==
  ASSUME TalliesInv, unsure' \subseteq Notes, NEW r \in Tallying, WriteShare(r)
  PROVE  TalliesInv'
<1>1. TalliesTyped /\ TalliesTypeOK /\ SharesSummed
  BY DEF TalliesInv, TalliesTyped
<1>2. /\ treq[r].at = "write" /\ treq[r].op = "share" /\ treq[r].thing \notin Notes
      /\ TallyGoto(r, "idle")
      /\ UNCHANGED <<exists, clock, noteShares, userHash, passed, tbegun, stale>>
  BY DEF WriteShare, TallyAt
<1>3. /\ treq[r].user \in Guests /\ treq[r].thing \in Things
      /\ treq' \in [Tallying -> TallyReq]
      /\ DOMAIN treq' = Tallying /\ \A s \in Tallying : TallyAsked(treq'[s])
      /\ \A s \in Tallying : s # r => treq'[s] = treq[s]
      /\ treq'[r].at = "idle"
  BY <1>2, ShareGoes
<1>4. PICK u \in Guests, t \in Guests \cup Points : u = treq[r].user /\ t = treq[r].thing
  BY <1>2, <1>3 DEF Things
<1>5. /\ share' = [share EXCEPT ![<<u, t>>] = @ + 1]
      /\ mapShares' = IF t \in Guests THEN [mapShares EXCEPT ![u] = @ + 1] ELSE mapShares
      /\ stats' = IF t \in Points THEN [stats EXCEPT ![Origin[t]].shares = @ + 1] ELSE stats
  BY <1>4 DEF WriteShare, OriginOf
<1>6. /\ share' \in [Guests \X Things -> Nat]
      /\ \A U \in SUBSET Guests, T \in SUBSET Things :
           Shared(U, T)' = IF u \in U /\ t \in T THEN Shared(U, T) + 1 ELSE Shared(U, T)
  <2>1. t \in Things
    BY DEF Things
  <2> QED
    BY <1>1, <1>5, <2>1, SharesUp
<1>7. /\ stats' \in [Points -> StatRow]
      /\ \A q \in Points, f \in Feels : stats'[q][f] = stats[q][f]
      /\ \A q \in Points : /\ stats[q].shares \in Nat
                           /\ stats'[q].shares = IF t \in Points /\ q = Origin[t]
                                                 THEN stats[q].shares + 1 ELSE stats[q].shares
  <2>1. stats \in [Points -> StatRow]
    BY <1>1 DEF TalliesTypeOK
  <2>2. \A q \in Points : stats[q] \in StatRow /\ stats[q].shares \in Nat
    BY <2>1 DEF StatRow
  <2>3. CASE t \notin Points
    BY <1>5, <2>1, <2>2, <2>3
  <2>4. CASE t \in Points
    <3>1. Origin[t] \in Points /\ stats' = [stats EXCEPT ![Origin[t]].shares = @ + 1]
      BY <1>5, <2>4, TallyConstants
    <3>2. PICK o \in Points : o = Origin[t]
      BY <3>1
    <3>3. /\ stats'[o] = [stats[o] EXCEPT !.shares = @ + 1]
          /\ \A q \in Points : q # o => stats'[q] = stats[q]
      BY <2>1, <3>1, <3>2
    <3>4. /\ stats'[o] \in StatRow /\ stats'[o].shares = stats[o].shares + 1
          /\ \A f \in Feels : stats'[o][f] = stats[o][f]
      BY <2>2, <3>3 DEF StatRow, Feels
    <3>5. stats' \in [Points -> StatRow]
      BY <2>1, <3>1, <3>2, <3>3, <3>4
    <3> QED
      BY <2>2, <2>4, <3>2, <3>3, <3>4, <3>5
  <2> QED
    BY <2>3, <2>4
<1>8. /\ mapShares' \in [Guests -> Nat]
      /\ \A v \in Guests : mapShares'[v] = IF t \in Guests /\ v = u THEN mapShares[v] + 1
                                           ELSE mapShares[v]
  BY <1>1, <1>5 DEF TalliesTypeOK
<1>9. TalliesTyped'
  BY <1>1, <1>2, <1>3, <1>6, <1>7, <1>8 DEF TalliesTyped, TalliesTypeOK
<1>11. SharesSummed'
  <2>1. ASSUME NEW q \in Points
        PROVE  stats'[q].shares = Shared(Guests, Descendants(q))'
    <3>1. stats[q].shares = Shared(Guests, Descendants(q))
      BY <1>1 DEF SharesSummed
    <3>2. Descendants(q) \in SUBSET Things /\ (t \in Descendants(q) <=> t \in Points /\ q = Origin[t])
      BY DEF Descendants, Things
    <3> QED
      BY <1>6, <1>7, <3>1, <3>2
  <2>3. ASSUME NEW v \in Guests
        PROVE  /\ mapShares'[v] <= Shared({v}, Guests)'
               /\ v \notin stale' => mapShares'[v] = Shared({v}, Guests)'
               /\ userHash'[v] # Nil => userHash'[v] <= mapShares'[v]
    <3>1. /\ mapShares[v] <= Shared({v}, Guests)
          /\ v \notin stale => mapShares[v] = Shared({v}, Guests)
          /\ userHash[v] # Nil => userHash[v] <= mapShares[v]
      BY <1>1 DEF SharesSummed
    <3>2. /\ Shared({v}, Guests) \in Int /\ mapShares[v] \in Nat
          /\ userHash[v] # Nil => userHash[v] \in Nat
      BY <1>1, SharedNumbers
    <3>3. Shared({v}, Guests)' = IF v = u /\ t \in Guests THEN Shared({v}, Guests) + 1
                                 ELSE Shared({v}, Guests)
      BY <1>6 DEF Things
    <3> QED
      BY <1>2, <1>8, <3>1, <3>2, <3>3
  <2> QED
    BY <2>1, <2>3 DEF SharesSummed
<1>12. ClocksSummed' /\ PassedByOwner' /\ \A s \in Tallying : FoundRight(treq[s])'
  BY <1>2, <1>3, <1>7, ClocksStill
<1> QED
  BY <1>9, <1>11, <1>12 DEF TalliesInv

(* The row of the share of a note is there, and no longer owed. *)
LEMMA CommitNoteShareKeeps ==
  ASSUME TalliesInv, unsure' \subseteq Notes, NEW r \in Tallying, CommitNoteShare(r)
  PROVE  TalliesInv'
<1>1. TalliesTyped /\ TalliesTypeOK /\ SharesSummed /\ TallyAsked(treq[r])
  BY DEF TalliesInv, TalliesTyped
<1>2. /\ treq[r].at = "commit" /\ TallyGoto(r, "idle")
      /\ UNCHANGED <<exists, clock, stats, noteShares, mapShares, userHash, passed, tbegun, stale>>
  BY DEF CommitNoteShare, TallyAt
<1>3. treq[r].op = "share" /\ treq[r].thing \in Notes
  BY <1>1, <1>2 DEF TallyAsked
<1>4. /\ treq[r].user \in Guests
      /\ treq' \in [Tallying -> TallyReq]
      /\ DOMAIN treq' = Tallying /\ \A s \in Tallying : TallyAsked(treq'[s])
      /\ \A s \in Tallying : s # r => treq'[s] = treq[s]
      /\ treq'[r].at = "idle"
  BY <1>2, <1>3, ShareGoes
<1>5. PICK u \in Guests, t \in Notes : u = treq[r].user /\ t = treq[r].thing
  BY <1>3, <1>4
<1>6. /\ share' \in [Guests \X Things -> Nat]
      /\ \A U \in SUBSET Guests, T \in SUBSET Things :
           Shared(U, T)' = IF u \in U /\ t \in T THEN Shared(U, T) + 1 ELSE Shared(U, T)
  <2>1. share' = [share EXCEPT ![<<u, t>>] = @ + 1] /\ t \in Things
    BY <1>5 DEF CommitNoteShare, Things
  <2> QED
    BY <1>1, <2>1, SharesUp
<1>7. TalliesTyped'
  BY <1>1, <1>2, <1>4, <1>6 DEF TalliesTyped, TalliesTypeOK
<1>9. SharesSummed'
  <2>1. ASSUME NEW q \in Points
        PROVE  stats'[q].shares = Shared(Guests, Descendants(q))'
    <3>1. t \notin Descendants(q) /\ Descendants(q) \in SUBSET Things
      BY TallyConstants DEF Descendants, Things
    <3>2. Shared(Guests, Descendants(q))' = Shared(Guests, Descendants(q))
      BY <1>6, <3>1
    <3> QED
      BY <1>1, <1>2, <3>2 DEF SharesSummed
  <2>2. ASSUME NEW v \in Guests
        PROVE  /\ mapShares'[v] <= Shared({v}, Guests)'
               /\ v \notin stale' => mapShares'[v] = Shared({v}, Guests)'
               /\ userHash'[v] # Nil => userHash'[v] <= mapShares'[v]
    <3>1. t \notin Guests /\ Guests \in SUBSET Things
      BY TallyConstants DEF Things
    <3>2. Shared({v}, Guests)' = Shared({v}, Guests)
      BY <1>6, <3>1
    <3> QED
      BY <1>1, <1>2, <3>2 DEF SharesSummed
  <2> QED
    BY <2>1, <2>2 DEF SharesSummed
<1>10. ClocksSummed' /\ PassedByOwner' /\ \A s \in Tallying : FoundRight(treq[s])'
  BY <1>2, <1>4, ClocksStill
<1> QED
  BY <1>7, <1>9, <1>10 DEF TalliesInv

--------------------------------------------------------------------------------
(* The daily synchronisation, and the theorem *)

(* What the synchronisation writes back to mapShares is no more than what *)
(* is there, and marks the user when it is less.                          *)
LEMMA SyncUserStatKeeps ==
  ASSUME TalliesInv, unsure' \subseteq Notes, NEW u \in Guests, SyncUserStat(u)
  PROVE  TalliesInv'
<1>1. /\ TalliesTyped /\ TalliesTypeOK /\ SharesSummed /\ ClocksSummed /\ PassedByOwner
      /\ \A s \in Tallying : FoundRight(treq[s])
  BY DEF TalliesInv, TalliesTyped
<1>2. /\ userHash[u] # Nil /\ userHash' = [userHash EXCEPT ![u] = Nil]
      /\ \/ /\ mapShares' = [mapShares EXCEPT ![u] = userHash[u]]
            /\ stale' = IF userHash[u] < mapShares[u] THEN stale \cup {u} ELSE stale
         \/ UNCHANGED <<mapShares, stale>>
      /\ UNCHANGED <<exists, clock, share, stats, noteShares, passed, treq, tbegun>>
  BY DEF SyncUserStat, SyncedShares
<1>3. /\ userHash[u] \in Nat /\ userHash[u] <= mapShares[u]
      /\ \A v \in Guests : mapShares[v] \in Nat
  BY <1>1, <1>2, SharedNumbers DEF SharesSummed
<1>4. /\ userHash' \in [Guests -> Nat \cup {Nil}] /\ mapShares' \in [Guests -> Nat]
      /\ stale' \subseteq Guests
  BY <1>1, <1>2, <1>3 DEF TalliesTypeOK
<1>5. TalliesTyped'
  BY <1>1, <1>2, <1>4 DEF TalliesTyped, TalliesTypeOK, TallyAsked
<1>6. ClocksSummed' /\ PassedByOwner' /\ \A s \in Tallying : FoundRight(treq[s])'
  BY <1>1, <1>2 DEF ClocksSummed, PassedByOwner, FoundRight, Clocked, Field, Descendants
<1>7. ASSUME NEW v \in Guests
      PROVE  /\ mapShares'[v] <= Shared({v}, Guests)
             /\ v \notin stale' => mapShares'[v] = Shared({v}, Guests)
             /\ userHash'[v] # Nil => userHash'[v] <= mapShares'[v]
  <2>1. /\ mapShares[v] <= Shared({v}, Guests)
        /\ v \notin stale => mapShares[v] = Shared({v}, Guests)
        /\ userHash[v] # Nil => userHash[v] <= mapShares[v]
    BY <1>1 DEF SharesSummed
  <2>2. Shared({v}, Guests) \in Int /\ mapShares[v] \in Nat /\ mapShares \in [Guests -> Nat]
        /\ userHash \in [Guests -> Nat \cup {Nil}]
    BY <1>1, SharedNumbers DEF TalliesTypeOK
  <2>3. CASE v = u
    <3>1. userHash'[u] = Nil
      BY <1>2, <2>2
    <3>2. CASE mapShares' = [mapShares EXCEPT ![u] = userHash[u]]
               /\ stale' = IF userHash[u] < mapShares[u] THEN stale \cup {u} ELSE stale
      <4>1. mapShares'[u] = userHash[u]
        BY <2>2, <3>2
      <4>2. u \notin stale' => userHash[u] = mapShares[u] /\ u \notin stale
        BY <1>3, <2>2, <2>3, <3>2
      <4> QED
        BY <1>3, <2>1, <2>2, <2>3, <3>1, <4>1, <4>2
    <3>3. CASE UNCHANGED <<mapShares, stale>>
      BY <2>1, <2>3, <3>1, <3>3
    <3> QED
      BY <1>2, <3>2, <3>3
  <2>4. CASE v # u
    <3>1. userHash'[v] = userHash[v] /\ mapShares'[v] = mapShares[v] /\ (v \in stale' <=> v \in stale)
      BY <1>2, <2>2, <2>4
    <3> QED
      BY <2>1, <3>1
  <2> QED
    BY <2>3, <2>4
<1>8. SharesSummed'
  <2>1. \A U, T : Shared(U, T)' = Shared(U, T)
    BY <1>2 DEF Shared
  <2>3. \A q \in Points : stats'[q].shares = Shared(Guests, Descendants(q))'
    BY <1>1, <1>2 DEF SharesSummed, Shared, Descendants
  <2>5. \A v \in Guests : /\ mapShares'[v] <= Shared({v}, Guests)'
                          /\ v \notin stale' => mapShares'[v] = Shared({v}, Guests)'
                          /\ userHash'[v] # Nil => userHash'[v] <= mapShares'[v]
    BY <1>7, <2>1
  <2> QED
    BY <2>3, <2>5 DEF SharesSummed
<1> QED
  BY <1>5, <1>6, <1>8 DEF TalliesInv

(* All sums are 0 at the start. *)
LEMMA TalliesBegin == TalliesInit => TalliesInv
<1> SUFFICES ASSUME TalliesInit PROVE TalliesInv
  OBVIOUS
<1>1. TalliesTyped
  BY TallyConstants, NoTallyAsked
  DEF TalliesInit, TalliesTyped, TalliesTypeOK, ClockRow, StatRow, NoteStat
<1>2. ASSUME NEW q \in Points, NEW f \in Feels
      PROVE  Sum(Field(clock, f, Guests \X Descendants(q)), Guests \X Descendants(q)) = 0
  <2> DEFINE S == Guests \X Descendants(q)
  <2>1. S \subseteq Guests \X Points /\ IsFiniteSet(S)
    <3>1. S \subseteq Guests \X Points
      BY DEF Descendants
    <3>2. IsFiniteSet(Descendants(q)) /\ IsFiniteSet(Guests)
      BY TallyConstants, TallySetsFinite
    <3>3. IsFiniteSet(S)
      BY <3>2, FS_Product
    <3> QED
      BY <3>1, <3>3
  <2>2. \A x \in S : Field(clock, f, S)[x] = 0
    BY <2>1 DEF Field, TalliesInit
  <2> HIDE DEF S
  <2>3. Sum(Field(clock, f, S), S) = 0
    BY <2>1, <2>2, SumOfZeros
  <2> QED
    BY <2>3 DEF S
<1>3. ASSUME NEW U \in SUBSET Guests, NEW T \in SUBSET Things
      PROVE  Shared(U, T) = 0
  <2>1. \A x \in U \X T : share[x] = 0
    BY DEF TalliesInit
  <2>2. IsFiniteSet(U \X T)
    BY TallySetsFinite
  <2>3. Sum(share, U \X T) = 0
    BY <2>1, <2>2, SumOfZeros
  <2> QED
    BY <2>3 DEF Shared
<1>4. ClocksSummed
  BY <1>2 DEF ClocksSummed, TalliesInit
<1>6. SharesSummed
  <2>1. /\ \A q : Descendants(q) \in SUBSET Things
        /\ \A n \in Notes : {n} \in SUBSET Things
        /\ Guests \in SUBSET Things
    BY DEF Descendants, Things
  <2>2. \A q \in Points : stats[q].shares = Shared(Guests, Descendants(q))
    BY <1>3, <2>1 DEF TalliesInit
  <2>4. \A u \in Guests : mapShares[u] = 0 /\ Shared({u}, Guests) = 0 /\ userHash[u] = Nil
    BY <1>3, <2>1 DEF TalliesInit
  <2> QED
    BY <2>2, <2>4 DEF SharesSummed
<1>7. PassedByOwner
  BY DEF PassedByOwner, TalliesInit, Clocked
<1>8. \A r \in Tallying : FoundRight(treq[r])
  BY NoTallyAsked DEF TalliesInit, FoundRight
<1> QED
  BY <1>1, <1>4, <1>6, <1>7, <1>8 DEF TalliesInv

(* Every step preserves the invariant. *)
LEMMA TalliesStep == TalliesInv /\ [TalliesNext]_tallyVars => TalliesInv'
<1> SUFFICES ASSUME TalliesInv, [TalliesNext]_tallyVars
             PROVE  TalliesInv'
  OBVIOUS
<1>1. /\ exists \subseteq Points /\ unsure \subseteq Notes /\ noteShares \in [Notes -> NoteStat]
      /\ TalliesTypeOK
  BY DEF TalliesInv, TalliesTyped, TalliesTypeOK
<1>2. CASE UNCHANGED tallyVars
  <2>1. UNCHANGED <<clock, share, stats, noteShares, mapShares, passed, treq, stale, userHash,
                    exists, unsure>>
    BY <1>2 DEF tallyVars
  <2> QED
    BY <1>1, <2>1, OtherSteps
<1>3. CASE TalliesNext
  <2>1. unsure' \subseteq Notes
    BY <1>1, <1>3 DEF TalliesNext
  <2>2. ASSUME NEW r \in Tallying, TallyStep(r)
        PROVE  TalliesInv'
    <3>1. CASE \/ \E u \in Guests, t \in Things, op \in Feels \cup {"share"} : BeginTally(r, u, t, op)
               \/ \E n \in Notes : BeginNoteStat(r, n)
      BY <2>1, <3>1, BeginTallyKeeps
    <3>2. CASE Rowless(r)
      BY <2>1, <3>2, QuietSteps
    <3>3. CASE WriteClock(r) \/ WriteShare(r) \/ CommitNoteShare(r)
      BY <2>1, <3>3, WriteClockKeeps, WriteShareKeeps, CommitNoteShareKeeps
    <3> QED
      BY <2>2, <3>1, <3>2, <3>3 DEF TallyStep, Rowless
  <2>3. ASSUME NEW p \in Points, DeletePoint(p)
        PROVE  TalliesInv'
    <3>1. /\ exists' \subseteq Points
          /\ UNCHANGED <<clock, share, stats, noteShares, mapShares, passed, treq, stale, userHash>>
      BY <1>1, <2>3 DEF DeletePoint, tallyRows
    <3> QED
      BY <1>1, <2>1, <3>1, OtherSteps
  <2>4. ASSUME NEW u \in Guests, LoadUserStat(u)
        PROVE  TalliesInv'
    <3>1. /\ UNCHANGED <<clock, share, stats, noteShares, mapShares, passed, treq, stale, exists>>
          /\ userHash[u] = Nil
          /\ userHash' = [userHash EXCEPT ![u] = mapShares[u]]
      BY <2>4 DEF LoadUserStat, tallyRows
    <3> QED
      BY <1>1, <2>1, <3>1, OtherSteps
  <2>5. ASSUME NEW u \in Guests, SyncUserStat(u)
        PROVE  TalliesInv'
    BY <2>1, <2>5, SyncUserStatKeeps
  <2>6. ASSUME NEW n \in Notes, BeginNoteSync(n) \/ EndNoteSync(n) \/ NoteSyncLoses(n)
        PROVE  TalliesInv'
    <3>1. UNCHANGED <<exists, clock, share, stats, mapShares, userHash, passed, treq, stale>>
      BY <2>6 DEF BeginNoteSync, EndNoteSync, NoteSyncLoses
    <3>2. noteShares' \in [Notes -> NoteStat]
      <4>1. noteShares[n] \in NoteStat /\ SharesShown(n) \in Nat
        BY <1>1, ShownNumber
      <4>2. CASE BeginNoteSync(n)
        BY <1>1, <4>1, <4>2 DEF BeginNoteSync, NoteStat
      <4>3. CASE EndNoteSync(n)
        <5>1. [saved |-> SharesShown(n), cached |-> Nil, syncing |-> FALSE] \in NoteStat
          BY <4>1 DEF NoteStat
        <5> QED
          BY <1>1, <4>3, <5>1 DEF EndNoteSync
      <4>4. CASE NoteSyncLoses(n)
        BY <1>1, <4>1, <4>4 DEF NoteSyncLoses, NoteStat
      <4> QED
        BY <2>6, <4>2, <4>3, <4>4
    <3> QED
      BY <1>1, <2>1, <3>1, <3>2, OtherSteps
  <2> QED
    BY <1>3, <2>2, <2>3, <2>4, <2>5, <2>6 DEF TalliesNext
<1> QED
  BY <1>2, <1>3

--------------------------------------------------------------------------------
(* The shares of a note *)

(* A step of a request that is about something else than note n, and writes  *)
(* no share of it                                                            *)
NoteStill(n) ==
  /\ noteShares'[n] = noteShares[n]
  /\ Shared(Guests, {n})' = Shared(Guests, {n})

(* What a request does to the statistic of note n, to its rows and to what   *)
(* is raised for them                                                        *)
NotePays(r, n) ==
  /\ SharesShown(n)' - Shared(Guests, {n})' - Cardinality(Raised(n)') >=
       SharesShown(n) - Shared(Guests, {n}) - Cardinality(Raised(n))
  /\ SharesShown(n)' = SharesShown(n) \/
       (treq[r].at = "add" /\ treq[r].op = "share" /\ treq[r].thing = n)
  /\ treq'[r].thing = n /\ treq'[r].at = "load" => treq'[r].got = SharesShown(n)'
  /\ noteShares[n].cached # Nil \/ (treq'[r].thing = n /\ treq'[r].at = "add") =>
       noteShares'[n].cached # Nil

(* The numbers that are compared *)
LEMMA NoteNumbers ==
  ASSUME TalliesTypeOK, NEW n \in Notes
  PROVE  /\ SharesShown(n) \in Nat /\ Shared(Guests, {n}) \in Int
         /\ Cardinality(Raised(n)) \in Nat /\ IsFiniteSet(Raised(n))
         /\ noteShares[n] \in NoteStat /\ Nil \notin Nat /\ {n} \in SUBSET Things
BY ShownNumber, SharedNumbers, TallySetsFinite, TallyConstants

(* A step that leaves the note alone, and raises nothing for it, pays. *)
LEMMA StillPays ==
  ASSUME TalliesTyped, TalliesTypeOK', NEW n \in Notes, NEW r \in Tallying, NoteStill(n),
         \A s \in Tallying : s # r => treq'[s] = treq[s],
         treq'[r].at # "commit" \/ treq'[r].thing # n,
         treq'[r].thing = n /\ treq'[r].at = "load" => treq'[r].got = SharesShown(n),
         treq'[r].thing = n /\ treq'[r].at = "add" => noteShares[n].cached # Nil
  PROVE  NotePays(r, n)
<1>1. SharesShown(n)' = SharesShown(n)
  BY DEF SharesShown, NoteStill
<1>2. Raised(n)' \subseteq Raised(n)
  BY DEF Raised
<1>3. Cardinality(Raised(n)') <= Cardinality(Raised(n)) /\ Cardinality(Raised(n)') \in Nat
  BY <1>2, TallySetsFinite, FS_Subset, FS_CardinalityType
<1>4. SharesShown(n) \in Nat /\ Shared(Guests, {n}) \in Int /\ Cardinality(Raised(n)) \in Nat
  BY NoteNumbers DEF TalliesTyped
<1> QED
  BY <1>1, <1>3, <1>4 DEF NoteStill, NotePays

(* What each step of a request does to a note *)
LEMMA RequestPays ==
  ASSUME TalliesInv, TalliesInv', NEW n \in Notes, NoteRight(n), NEW r \in Tallying, TallyStep(r)
  PROVE  (\A s \in Tallying : s # r => treq'[s] = treq[s]) /\ NotePays(r, n)
<1>1. /\ TalliesTyped /\ TalliesTypeOK /\ TalliesTypeOK' /\ treq \in [Tallying -> TallyReq]
      /\ TallyAsked(treq[r]) /\ treq[r] \in TallyReq /\ noteShares \in [Notes -> NoteStat]
  BY DEF TalliesInv, TalliesTyped, TalliesTypeOK
<1>2. \A s \in Tallying : s # r => treq'[s] = treq[s]
  <2>1. \E z : treq' = [treq EXCEPT ![r] = z]
    <3>1. CASE \/ \E u \in Guests, t \in Things, op \in Feels \cup {"share"} : BeginTally(r, u, t, op)
               \/ \E m \in Notes : BeginNoteStat(r, m)
      BY <3>1 DEF BeginTally, BeginNoteStat
    <3>2. CASE Rowless(r)
      BY <1>1, <3>2, QuietGoes
    <3>3. CASE WriteClock(r) \/ WriteShare(r) \/ CommitNoteShare(r)
      BY <3>3 DEF WriteClock, WriteShare, CommitNoteShare, TallyGoto
    <3> QED
      BY <3>1, <3>2, <3>3 DEF TallyStep, Rowless
  <2> QED
    BY <1>1, <2>1
<1>3. NoTally.at = "idle"
  BY NoTallyAsked
<1>4. UNCHANGED share => Shared(Guests, {n})' = Shared(Guests, {n})
  BY DEF Shared
<1>n. /\ SharesShown(n) \in Nat /\ Shared(Guests, {n}) \in Int /\ Cardinality(Raised(n)) \in Nat
      /\ noteShares[n] \in NoteStat /\ Nil \notin Nat
  BY <1>1, NoteNumbers
<1>5. CASE \/ \E u \in Guests, t \in Things, op \in Feels \cup {"share"} : BeginTally(r, u, t, op)
           \/ \E m \in Notes : BeginNoteStat(r, m)
  <2>1. UNCHANGED <<share, noteShares>>
    BY <1>5 DEF BeginTally, BeginNoteStat, tallyRows
  <2>2. treq'[r].at \in {"find", "getSave", "exists"}
    <3>1. CASE \E u \in Guests, t \in Things, op \in Feels \cup {"share"} : BeginTally(r, u, t, op)
      BY <1>1, <3>1 DEF BeginTally, NoTally
    <3>2. CASE \E m \in Notes : BeginNoteStat(r, m)
      BY <1>1, <3>2 DEF BeginNoteStat, NoTally
    <3> QED
      BY <1>5, <3>1, <3>2
  <2> QED
    BY <1>1, <1>2, <1>4, <2>1, <2>2, StillPays DEF NoteStill
<1>6. CASE GetSave(r) \/ FindRow(r) \/ TellOwner(r) \/ TallyFails(r) \/ BeginNoteShares(r) \/ FindNoteShares(r)
  <2>1. UNCHANGED <<share, noteShares>>
    BY <1>6 DEF GetSave, FindRow, TellOwner, TallyFails, BeginNoteShares, FindNoteShares, tallyRows
  <2>2. /\ treq'[r].at \in {"idle", "find", "write", "exists", "read", "add"}
        /\ treq'[r].thing = n /\ treq'[r].at = "add" => noteShares[n].cached # Nil
    <3>1. CASE GetSave(r) \/ TellOwner(r) \/ TallyFails(r) \/ BeginNoteShares(r)
      BY <1>1, <1>3, <3>1 DEF GetSave, TellOwner, TallyFails, BeginNoteShares, TallyGoto, TallyReq
    <3>2. CASE FindRow(r)
      BY <1>1, <3>2 DEF FindRow, TallyReq
    <3>3. CASE FindNoteShares(r)
      BY <1>1, <3>3 DEF FindNoteShares, TallyGoto, TallyReq
    <3> QED
      BY <1>6, <3>1, <3>2, <3>3
  <2> QED
    BY <1>1, <1>2, <1>4, <2>1, <2>2, StillPays DEF NoteStill
<1>7. CASE ReadNoteShares(r)
  <2>1. UNCHANGED <<share, noteShares>>
    BY <1>7 DEF ReadNoteShares, tallyRows
  <2>2. treq'[r].at = "load" /\ treq'[r].thing = treq[r].thing
        /\ treq'[r].got = SharesShown(treq[r].thing)
    BY <1>1, <1>7 DEF ReadNoteShares, TallyReq
  <2> QED
    BY <1>1, <1>2, <1>4, <2>1, <2>2, StillPays DEF NoteStill
<1>8. CASE WriteClock(r) \/ WriteShare(r)
  <2>1. treq'[r].at \in {"idle", "message"} /\ UNCHANGED noteShares
    BY <1>1, <1>3, <1>8 DEF WriteClock, WriteShare, TallyGoto, TallyReq
  <2>2. Shared(Guests, {n})' = Shared(Guests, {n})
    <3>1. CASE WriteClock(r)
      BY <1>4, <3>1 DEF WriteClock
    <3>2. CASE WriteShare(r)
      <4>1. /\ share' = [share EXCEPT ![<<treq[r].user, treq[r].thing>>] = @ + 1]
            /\ treq[r].thing \notin Notes /\ treq[r].at = "write" /\ treq[r].op = "share"
        BY <3>2 DEF WriteShare, TallyAt
      <4>2. PICK u \in Guests, t \in Things : u = treq[r].user /\ t = treq[r].thing
        BY <1>1, <4>1 DEF TallyAsked
      <4>3. t \notin {n} /\ {n} \in SUBSET Things /\ share' = [share EXCEPT ![<<u, t>>] = @ + 1]
        BY <4>1, <4>2 DEF Things
      <4>4. Guests \in SUBSET Guests /\ \A U \in SUBSET Guests, T \in SUBSET Things :
              Shared(U, T)' = IF u \in U /\ t \in T THEN Shared(U, T) + 1 ELSE Shared(U, T)
        BY <1>1, <4>3, SharesUp
      <4>5. Shared(Guests, {n})' = IF u \in Guests /\ t \in {n} THEN Shared(Guests, {n}) + 1
                                   ELSE Shared(Guests, {n})
        BY <4>3, <4>4
      <4> QED
        BY <4>3, <4>5
    <3> QED
      BY <1>8, <3>1, <3>2
  <2> QED
    BY <1>1, <1>2, <2>1, <2>2, StillPays DEF NoteStill
<1>9. CASE LoadNoteShares(r)
  <2>1. /\ UNCHANGED share /\ treq'[r].at = "add" /\ treq'[r].thing = treq[r].thing
        /\ noteShares' = [noteShares EXCEPT ![treq[r].thing].cached = treq[r].got]
        /\ treq[r].at = "load" /\ treq[r].thing \in Notes /\ treq[r].got \in Nat
    BY <1>1, <1>9 DEF LoadNoteShares, TallyGoto, TallyReq, TallyAt, TallyAsked, Asking
  <2>2. CASE treq[r].thing # n
    BY <1>1, <1>2, <1>4, <2>1, <2>2, StillPays DEF NoteStill
  <2>3. CASE treq[r].thing = n
    <3>1. treq[r].got = SharesShown(n)
      BY <2>1, <2>3 DEF NoteRight
    <3>2. noteShares'[n].cached = SharesShown(n) /\ SharesShown(n) # Nil
      BY <1>1, <1>n, <2>1, <2>3, <3>1
    <3>3. SharesShown(n)' = SharesShown(n)
      BY <3>2 DEF SharesShown
    <3>4. Raised(n)' = Raised(n)
      BY <1>2, <2>1 DEF Raised
    <3> QED
      BY <1>2, <1>4, <1>n, <2>1, <3>2, <3>3, <3>4 DEF NotePays
  <2> QED
    BY <2>2, <2>3
<1>10. CASE RaiseNoteShares(r)
  <2> DEFINE k == IF treq[r].op = "share" THEN 1 ELSE 0
  <2>1. /\ UNCHANGED share /\ treq[r].at = "add" /\ treq[r].thing \in Notes
        /\ noteShares' = [noteShares EXCEPT ![treq[r].thing].cached = SharesAdded(treq[r].thing, k)]
        /\ treq[r].op = "share" => treq'[r].at = "commit" /\ treq'[r].thing = treq[r].thing
        /\ treq[r].op # "share" => treq'[r].at = "idle"
    BY <1>1, <1>3, <1>10
    DEF RaiseNoteShares, TallyGoto, TallyReq, TallyAt, TallyAsked, Asking
  <2>2. CASE treq[r].thing # n
    BY <1>1, <1>2, <1>4, <2>1, <2>2, StillPays DEF NoteStill
  <2>3. CASE treq[r].thing = n
    <3>1. noteShares[n].cached # Nil
      BY <2>1, <2>3 DEF NoteRight
    <3>2. SharesShown(n) = noteShares[n].cached /\ SharesShown(n) \in Nat /\ k \in {0, 1}
      BY <1>n, <3>1 DEF SharesShown
    <3>3. noteShares'[n].cached = SharesShown(n) + k
      BY <1>1, <2>1, <2>3, <3>1, <3>2 DEF SharesAdded, NoteStat
    <3>4. SharesShown(n)' = SharesShown(n) + k /\ noteShares'[n].cached # Nil
      <4>1. SharesShown(n) + k \in Nat
        BY <3>2
      <4>2. noteShares'[n].cached # Nil
        BY <1>n, <3>3, <4>1
      <4> QED
        BY <3>3, <4>2 DEF SharesShown
    <3>5. Cardinality(Raised(n)') = Cardinality(Raised(n)) + k
      <4>1. CASE treq[r].op = "share"
        <5>1. Raised(n)' = Raised(n) \cup {r} /\ r \notin Raised(n)
          BY <1>2, <2>1, <2>3, <4>1 DEF Raised
        <5> QED
          BY <4>1, <5>1, TallySetsFinite, FS_AddElement
      <4>2. CASE treq[r].op # "share"
        <5>1. Raised(n)' = Raised(n)
          BY <1>2, <2>1, <4>2 DEF Raised
        <5> QED
          BY <4>2, <5>1, TallySetsFinite
      <4> QED
        BY <4>1, <4>2
    <3>6. treq'[r].at \in {"commit", "idle"}
      BY <2>1
    <3>7. SharesShown(n)' = SharesShown(n) \/ treq[r].op = "share"
      BY <3>2, <3>4
    <3> HIDE DEF k
    <3>8. SharesShown(n)' - Shared(Guests, {n})' - Cardinality(Raised(n)') >=
            SharesShown(n) - Shared(Guests, {n}) - Cardinality(Raised(n))
      BY <1>4, <1>n, <2>1, <3>2, <3>4, <3>5
    <3> QED
      BY <1>2, <2>1, <2>3, <3>4, <3>6, <3>7, <3>8 DEF NotePays
  <2> QED
    BY <2>2, <2>3
<1>11. CASE CommitNoteShare(r)
  <2>1. /\ UNCHANGED noteShares /\ treq[r].at = "commit" /\ treq'[r].at = "idle"
        /\ share' = [share EXCEPT ![<<treq[r].user, treq[r].thing>>] = @ + 1]
    BY <1>1, <1>3, <1>11 DEF CommitNoteShare, TallyGoto, TallyAt
  <2>2. PICK u \in Guests, t \in Notes : u = treq[r].user /\ t = treq[r].thing
    BY <1>1, <2>1 DEF TallyAsked
  <2>3. Shared(Guests, {n})' = IF t = n THEN Shared(Guests, {n}) + 1 ELSE Shared(Guests, {n})
    <3>1. t \in Things /\ {n} \in SUBSET Things /\ share' = [share EXCEPT ![<<u, t>>] = @ + 1]
      BY <2>1, <2>2 DEF Things
    <3>2. Guests \in SUBSET Guests /\ \A U \in SUBSET Guests, T \in SUBSET Things :
            Shared(U, T)' = IF u \in U /\ t \in T THEN Shared(U, T) + 1 ELSE Shared(U, T)
      BY <1>1, <3>1, SharesUp
    <3>3. Shared(Guests, {n})' = IF u \in Guests /\ t \in {n} THEN Shared(Guests, {n}) + 1
                                 ELSE Shared(Guests, {n})
      BY <3>1, <3>2
    <3> QED
      BY <3>3
  <2>4. CASE t # n
    BY <1>1, <1>2, <2>1, <2>3, <2>4, StillPays DEF NoteStill
  <2>5. CASE t = n
    <3>1. Raised(n)' = Raised(n) \ {r} /\ r \in Raised(n)
      BY <1>2, <2>1, <2>2, <2>5 DEF Raised
    <3>2. Cardinality(Raised(n)') = Cardinality(Raised(n)) - 1
      BY <3>1, TallySetsFinite, FS_RemoveElement
    <3>3. SharesShown(n)' = SharesShown(n)
      BY <2>1 DEF SharesShown
    <3>4. SharesShown(n)' - Shared(Guests, {n})' - Cardinality(Raised(n)') >=
            SharesShown(n) - Shared(Guests, {n}) - Cardinality(Raised(n))
      BY <1>n, <2>3, <2>5, <3>2, <3>3
    <3> QED
      BY <1>2, <2>1, <3>3, <3>4 DEF NotePays
  <2> QED
    BY <2>4, <2>5
<1> QED
  BY <1>2, <1>5, <1>6, <1>7, <1>8, <1>9, <1>10, <1>11 DEF TallyStep

(* A note that stays sure stays right. *)
LEMMA NoteStays ==
  ASSUME TalliesInv, TalliesInv', TalliesNext, NEW n \in Notes, n \notin unsure', NoteRight(n)
  PROVE  NoteRight(n)'
<1>1. /\ SharesShown(n) >= Shared(Guests, {n}) + Cardinality(Raised(n))
      /\ ~SharesOverlap(n)
      /\ \A r \in Tallying : treq[r].thing = n =>
           /\ treq[r].at = "load" => treq[r].got = SharesShown(n)
           /\ treq[r].at = "add" => noteShares[n].cached # Nil
  BY DEF NoteRight
<1>2. /\ SharesShown(n) \in Nat /\ Shared(Guests, {n}) \in Int /\ Cardinality(Raised(n)) \in Nat
      /\ SharesShown(n)' \in Nat /\ Shared(Guests, {n})' \in Int /\ Cardinality(Raised(n)') \in Nat
      /\ noteShares \in [Notes -> NoteStat] /\ noteShares' \in [Notes -> NoteStat]
  <2>1. TalliesTypeOK /\ TalliesTypeOK'
    BY DEF TalliesInv, TalliesTyped
  <2>2. SharesShown(n) \in Nat /\ Shared(Guests, {n}) \in Int /\ Cardinality(Raised(n)) \in Nat
    BY <2>1, NoteNumbers
  <2>3. SharesShown(n)' \in Nat
    BY <2>1 DEF TalliesTypeOK, NoteStat, SharesShown
  <2>4. Shared(Guests, {n})' \in Int
    <3>1. share' \in [Guests \X Things -> Nat] /\ {n} \in SUBSET Things
      BY <2>1 DEF TalliesTypeOK, Things
    <3>2. PICK s : s = share'
      OBVIOUS
    <3>3. Sum(s, Guests \X {n}) \in Int
      BY <3>1, <3>2, ShareTerms
    <3> QED
      BY <3>2, <3>3 DEF Shared
  <2>5. Cardinality(Raised(n)') \in Nat
    <3>1. IsFiniteSet(Raised(n)')
      BY TallyConstants, FS_Subset DEF Raised
    <3> QED
      BY <3>1, FS_CardinalityType
  <2> QED
    BY <2>1, <2>2, <2>3, <2>4, <2>5 DEF TalliesTypeOK
<1>3. SUFFICES /\ SharesShown(n)' >= Shared(Guests, {n})' + Cardinality(Raised(n)')
               /\ SharesOverlap(n)' => n \in unsure'
               /\ \A r \in Tallying : treq'[r].thing = n =>
                    /\ treq'[r].at = "load" => treq'[r].got = SharesShown(n)'
                    /\ treq'[r].at = "add" => noteShares'[n].cached # Nil
  BY DEF NoteRight
<1>4. ASSUME NEW r \in Tallying, TallyStep(r), unsure' = unsure \cup { m \in Notes : SharesOverlap(m)' }
      PROVE  /\ SharesShown(n)' >= Shared(Guests, {n})' + Cardinality(Raised(n)')
             /\ SharesOverlap(n)' => n \in unsure'
             /\ \A s \in Tallying : treq'[s].thing = n =>
                  /\ treq'[s].at = "load" => treq'[s].got = SharesShown(n)'
                  /\ treq'[s].at = "add" => noteShares'[n].cached # Nil
  <2>1. (\A s \in Tallying : s # r => treq'[s] = treq[s]) /\ NotePays(r, n)
    BY <1>4, RequestPays
  <2>2. SharesShown(n)' >= Shared(Guests, {n})' + Cardinality(Raised(n)')
    BY <1>1, <1>2, <2>1 DEF NotePays
  <2>3. SharesOverlap(n)' => n \in unsure'
    BY <1>4
  <2>4. treq[r].at = "add" /\ treq[r].op = "share" /\ treq[r].thing = n =>
          \A s \in Tallying : s # r /\ treq[s].thing = n => treq[s].at # "load"
    BY <1>1 DEF SharesOverlap, InShares, TallyAt
  <2> QED
    BY <1>1, <2>1, <2>2, <2>3, <2>4 DEF NotePays
<1>5. ASSUME UNCHANGED <<share, treq, noteShares>>, unsure' = unsure \cup { m \in Notes : SharesOverlap(m)' }
      PROVE  /\ SharesShown(n)' >= Shared(Guests, {n})' + Cardinality(Raised(n)')
             /\ SharesOverlap(n)' => n \in unsure'
             /\ \A s \in Tallying : treq'[s].thing = n =>
                  /\ treq'[s].at = "load" => treq'[s].got = SharesShown(n)'
                  /\ treq'[s].at = "add" => noteShares'[n].cached # Nil
  <2>1. /\ SharesShown(n)' = SharesShown(n) /\ Shared(Guests, {n})' = Shared(Guests, {n})
        /\ Raised(n)' = Raised(n)
    BY <1>5 DEF SharesShown, Shared, Raised
  <2> QED
    BY <1>1, <1>5, <2>1
<1>6. ASSUME NEW m \in Notes,
             \/ NoteSyncLoses(m) /\ unsure' = unsure \cup {m}
             \/ /\ BeginNoteSync(m) \/ EndNoteSync(m)
                /\ unsure' = unsure \cup { k \in Notes : SharesOverlap(k)' }
      PROVE  /\ SharesShown(n)' >= Shared(Guests, {n})' + Cardinality(Raised(n)')
             /\ SharesOverlap(n)' => n \in unsure'
             /\ \A s \in Tallying : treq'[s].thing = n =>
                  /\ treq'[s].at = "load" => treq'[s].got = SharesShown(n)'
                  /\ treq'[s].at = "add" => noteShares'[n].cached # Nil
  <2>1. UNCHANGED <<share, treq>>
    BY <1>6 DEF BeginNoteSync, EndNoteSync, NoteSyncLoses
  <2>2. Shared(Guests, {n})' = Shared(Guests, {n}) /\ Raised(n)' = Raised(n)
    BY <2>1 DEF Shared, Raised
  <2>3. CASE m # n
    <3>1. noteShares'[n] = noteShares[n]
      BY <1>2, <1>6, <2>3 DEF BeginNoteSync, EndNoteSync, NoteSyncLoses
    <3>2. SharesShown(n)' = SharesShown(n) /\ (SharesOverlap(n)' <=> SharesOverlap(n))
      BY <2>1, <3>1 DEF SharesShown, SharesOverlap, InShares, TallyAt
    <3> QED
      BY <1>1, <2>1, <2>2, <3>1, <3>2
  <2>4. CASE m = n /\ BeginNoteSync(n) /\ unsure' = unsure \cup { k \in Notes : SharesOverlap(k)' }
    <3>1. noteShares'[n].cached = noteShares[n].cached /\ SharesShown(n)' = SharesShown(n)
      BY <1>2, <2>4 DEF BeginNoteSync, SharesShown, NoteStat
    <3>2. SharesOverlap(n)' => n \in unsure'
      BY <1>6, <2>4
    <3> QED
      BY <1>1, <2>1, <2>2, <3>1, <3>2
  <2>5. CASE m = n /\ EndNoteSync(n) /\ unsure' = unsure \cup { k \in Notes : SharesOverlap(k)' }
    <3>1. noteShares[n].syncing /\ SharesShown(n)' = SharesShown(n)
      BY <1>2, <2>5 DEF EndNoteSync, SharesShown
    <3>2. SharesOverlap(n)' => n \in unsure'
      BY <1>6, <2>5
    <3>3. \A s \in Tallying : treq[s].thing = n => treq[s].at \notin {"load", "add"}
      BY <1>1, <3>1 DEF SharesOverlap, InShares
    <3> QED
      BY <1>1, <2>1, <2>2, <3>1, <3>2, <3>3
  <2> QED
    BY <1>6, <2>3, <2>4, <2>5
<1>7. (\E p \in Points : DeletePoint(p)) \/ (\E u \in Guests : LoadUserStat(u) \/ SyncUserStat(u)) =>
        UNCHANGED <<share, treq, noteShares>>
  BY DEF DeletePoint, LoadUserStat, SyncUserStat, tallyRows
<1>8. CASE \E m \in Notes : NoteSyncLoses(m) /\ unsure' = unsure \cup {m}
  BY <1>6, <1>8
<1>9. CASE /\ \/ \E r \in Tallying : TallyStep(r)
              \/ \E p \in Points : DeletePoint(p)
              \/ \E u \in Guests : LoadUserStat(u) \/ SyncUserStat(u)
              \/ \E m \in Notes : BeginNoteSync(m) \/ EndNoteSync(m)
           /\ unsure' = unsure \cup { m \in Notes : SharesOverlap(m)' }
  <2>1. CASE \E m \in Notes : BeginNoteSync(m) \/ EndNoteSync(m)
    BY <1>6, <1>9, <2>1
  <2> QED
    BY <1>4, <1>5, <1>7, <1>9, <2>1
<1> QED
  BY <1>8, <1>9 DEF TalliesNext

(* What the invariant says of the sums is what the property says. *)
LEMMA TalliesSum == TalliesInv /\ NotesRight => TalliesCounted
<1> SUFFICES ASSUME TalliesInv, NotesRight PROVE TalliesCounted
  OBVIOUS
<1>1. TalliesTypeOK /\ ClocksSummed /\ SharesSummed /\ PassedByOwner
  BY DEF TalliesInv, TalliesTyped
<1>2. ASSUME NEW q \in Points, NEW f \in Feels
      PROVE  stats[q][f] = SumOfField(clock, f, Guests \X Descendants(q))
  <2>1. PICK c : c = clock
    OBVIOUS
  <2>2. c \in [Guests \X Points -> ClockRow]
    BY <1>1, <2>1 DEF TalliesTypeOK
  <2>3. SumOfField(c, f, Guests \X Descendants(q))
          = Sum(Field(c, f, Guests \X Descendants(q)), Guests \X Descendants(q))
    BY <2>2, ClockTerms, FieldsSum
  <2>4. SumOfField(clock, f, Guests \X Descendants(q))
          = Sum(Field(clock, f, Guests \X Descendants(q)), Guests \X Descendants(q))
    BY <2>1, <2>3
  <2> QED
    BY <1>1, <2>4 DEF ClocksSummed
<1>3. ClocksCounted
  BY <1>2 DEF ClocksCounted, SumOfField
<1>4. \A U, T : SharesOf(U, T) = Shared(U, T)
  BY DEF SharesOf, Shared, Sum
<1>5. ASSUME NEW n \in Notes \ unsure
      PROVE  SharesShown(n) >= Shared(Guests, {n})
  <2>1. /\ SharesShown(n) \in Nat /\ Shared(Guests, {n}) \in Int /\ Cardinality(Raised(n)) \in Nat
    BY <1>1, NoteNumbers
  <2>2. SharesShown(n) >= Shared(Guests, {n}) + Cardinality(Raised(n))
    BY DEF NotesRight, NoteRight
  <2> QED
    BY <2>1, <2>2
<1>6. SharesCounted
  BY <1>1, <1>4, <1>5 DEF SharesCounted, SharesSummed
<1> QED
  BY <1>1, <1>3, <1>6 DEF TalliesCounted

(* Nothing is shared at the start. *)
LEMMA NotesBegin == TalliesInit => NotesRight
<1> SUFFICES ASSUME TalliesInit, NEW n \in Notes
             PROVE  NoteRight(n)
  BY DEF NotesRight
<1>1. \A r \in Tallying : treq[r].at = "idle"
  BY NoTallyAsked DEF TalliesInit
<1>2. SharesShown(n) = 0 /\ noteShares[n].syncing = FALSE
  BY DEF TalliesInit, SharesShown
<1>3. Raised(n) = {} /\ Cardinality(Raised(n)) = 0
  BY <1>1, FS_EmptySet DEF Raised
<1>4. Shared(Guests, {n}) = 0
  <2>1. \A x \in Guests \X {n} : share[x] = 0
    BY DEF TalliesInit, Things
  <2>2. IsFiniteSet(Guests \X {n})
    BY TallySetsFinite DEF Things
  <2> QED
    BY <2>1, <2>2, SumOfZeros DEF Shared
<1> QED
  BY <1>1, <1>2, <1>3, <1>4 DEF NoteRight, SharesOverlap, TallyAt

(* What is counted of visits and shares is what their rows say, and of the   *)
(* shares of a note no less, until an update has met the synchronisation or  *)
(* another request that loads the hash (WriteClock, WriteShare, updateStat   *)
(* by RaiseNoteShares, and SyncUserStat).                                    *)
THEOREM TalliesAreCounted == TalliesSpec => []TalliesCounted
<1>1. TalliesInit => TalliesInv /\ NotesRight
  BY TalliesBegin, NotesBegin
<1>2. TalliesInv /\ [TalliesNext]_tallyVars => TalliesInv'
  BY TalliesStep
<1>3. TalliesInv /\ TalliesInv' /\ NotesRight /\ [TalliesNext]_tallyVars => NotesRight'
  <2> SUFFICES ASSUME TalliesInv, TalliesInv', NotesRight, [TalliesNext]_tallyVars,
                      NEW n \in Notes, n \notin unsure'
               PROVE  NoteRight(n)'
    BY DEF NotesRight
  <2>1. CASE TalliesNext
    <3>1. unsure \subseteq unsure'
      BY <2>1 DEF TalliesNext
    <3>2. NoteRight(n)
      BY <3>1 DEF NotesRight
    <3> QED
      BY <2>1, <3>2, NoteStays
  <2>2. CASE UNCHANGED tallyVars
    <3>1. UNCHANGED <<share, treq, noteShares, unsure>>
      BY <2>2 DEF tallyVars
    <3> QED
      BY <3>1 DEF NotesRight, NoteRight, SharesShown, Shared, Raised, SharesOverlap, InShares, TallyAt
  <2> QED
    BY <2>1, <2>2
<1>4. TalliesInv /\ NotesRight => TalliesCounted
  BY TalliesSum
<1> QED
  BY <1>1, <1>2, <1>3, <1>4, PTL DEF TalliesSpec

--------------------------------------------------------------------------------
(* SharedState *)

(* A behaviour of all of them is one of each: what is proved of each of them *)
(* is true of it.                                                            *)
LEMMA SharedIsEach ==
  SharedSpec => Spec /\ CacheSpec /\ ProcessSpec /\ MailSpec /\ TalliesSpec
<1>1. SharedInit => Init /\ CacheInit /\ ProcessInit /\ MailInit /\ TalliesInit
  BY DEF SharedInit
<1>2. [SharedNext]_sharedVars =>
        /\ [Next]_vars /\ [CacheNext]_cacheVars /\ [ProcessNext]_processVars
        /\ [MailNext]_mailVars /\ [TalliesNext]_tallyVars
  BY DEF SharedNext, sharedVars, Locking, Copying, Governing, Mailing, Visiting
<1> QED
  BY <1>1, <1>2, PTL
  DEF SharedSpec, Spec, CacheSpec, ProcessSpec, MailSpec, TalliesSpec

(* What the worker processes share is well typed: the keys and who waits for *)
(* them, rows and copies, the messages between processes, the messages of    *)
(* the system, and the rows of visits and shares.                            *)
THEOREM SharedTyped == SharedSpec => []SharedTypeOK
<1>1. Spec => []TypeOK
  <2>1. IInv => TypeOK
    BY DEF IInv
  <2> QED
    BY InitIInv, NextIInv, <2>1, PTL DEF Spec
<1>2. TalliesSpec => []TalliesTypeOK
  <2>1. TalliesInv => TalliesTypeOK
    BY DEF TalliesInv, TalliesTyped
  <2>2. TalliesInv /\ [TalliesNext]_tallyVars => TalliesInv'
    BY TalliesStep
  <2> QED
    BY TalliesBegin, <2>1, <2>2, PTL DEF TalliesSpec
<1>3. TypeOK /\ CachesTypeOK /\ WorkersTypeOK /\ MailsTypeOK /\ TalliesTypeOK <=> SharedTypeOK
  BY DEF SharedTypeOK
<1> QED
  BY SharedIsEach, <1>1, CachesKeepTypes, ProcessesTyped, MailsKeepTypes, <1>2, <1>3, PTL
================================================================================
