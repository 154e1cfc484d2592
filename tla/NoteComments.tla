----------------------------- MODULE NoteComments -----------------------------
(***************************************************************************)
(* The comments of one note.  A QUESTION is about the note, an ANSWER is   *)
(* about a question (its father), a REPLY is about an answer or a reply    *)
(* (its up) of one question.  The column aCounts of a question counts its  *)
(* answers and replies, and is moved in the transaction that inserts or    *)
(* deletes them; the statistic comments of the note, and the message to    *)
(* whom the comment is about, come after the transaction.                  *)
(*                                                                         *)
(* The statistic is counted in redis: updateStat asks whether the hash of  *)
(* the note exists, loads it when it does not, and adds to it, by commands *)
(* that other requests come between, and that may fail.  StatCache has all *)
(* of these commands; here are the ones between which a number can be lost.*)
(*                                                                         *)
(* Comments are numbered in the order in which they are created.  The lock *)
(* of the handlers lets any number of requests through (RequestLock).      *)
(***************************************************************************)
EXTENDS Integers, FiniteSets, Sequences, SequencesExt

CONSTANTS
  Users,            \* registered users
  Writers,          \* the users who comment
  Author,           \* who wrote the note: a user, or Public
  Public,           \* user 0, who gets no messages
  MaxComments,      \* bound on the number of comments created
  CommentRequests,  \* requests in progress at a time
  Nobody

Comments == 1..MaxComments
Types    == {"QUESTION", "ANSWER", "REPLY"}

ASSUME CommentConstants ==
  /\ MaxComments \in Nat /\ IsFiniteSet(CommentRequests)
  /\ Writers \subseteq Users /\ Public \notin Users /\ Author \in Users \cup {Public}
  /\ Nobody \notin Users \cup {Public} \cup Int

VARIABLES
  row,       \* row[c]: comment c of note_comments
  nstat,     \* the statistic comments of the note: the column of its row, the
             \* hash in redis or Nobody, and whether the master writes it back
  mails,     \* the messages sent: whom, and about which comment
  creq,      \* creq[r]: where request r is
  missed,    \* what requests that failed were still to add to the statistic
  blurred    \* whether updates of it have been in each other's way (StatOverlap)

commentVars == <<row, nstat, mails, creq, missed, blurred>>

CommentRow == [status : {"free", "live", "deleted"}, type : Types, user : Users \cup {Nobody},
               father : Comments \cup {Nobody}, up : Comments \cup {Nobody}, aCounts : Int]
StatRow == [saved : Nat, cached : Int \cup {Nobody}, syncing : BOOLEAN]
Request == [at : {"idle", "insert", "message", "delete", "exists", "read", "load", "add"},
            comment : Comments \cup {Nobody}, type : Types, user : Users \cup {Nobody},
            father : Comments \cup {Nobody}, up : Comments \cup {Nobody},
            to : Users \cup {Public, Nobody},
            n : Int,                      \* what it still has to add to the statistic
            got : Int \cup {Nobody}]      \* what it has read to load the hash with

BlankRow == [status |-> "free", type |-> "QUESTION", user |-> Nobody,
             father |-> Nobody, up |-> Nobody, aCounts |-> 0]
NoRequest == [at |-> "idle", comment |-> Nobody, type |-> "QUESTION", user |-> Nobody,
              father |-> Nobody, up |-> Nobody, to |-> Nobody, n |-> 0, got |-> Nobody]

CommentsInit ==
  /\ row = [c \in Comments |-> BlankRow]
  /\ nstat = [saved |-> 0, cached |-> Nobody, syncing |-> FALSE]
  /\ mails = {} /\ missed = 0 /\ blurred = FALSE
  /\ creq = [r \in CommentRequests |-> NoRequest]

Live(c)     == c # Nobody /\ row[c].status = "live"
LiveRows    == { c \in Comments : Live(c) }
Existing(t) == { c \in Comments : row[c].status # "free" /\ row[c].type \in t }
ThreadOf(q) == { c \in LiveRows : row[c].father = q }
NextId      == 1 + Cardinality({ c \in Comments : row[c].status # "free" })
CommentAt(r, at)   == creq[r].at = at
CommentGoto(r, at) == creq' = [creq EXCEPT ![r].at = at]
CommentEnds(r)   == creq' = [creq EXCEPT ![r] = NoRequest]

--------------------------------------------------------------------------------
(* createOne *)

(* What a client sends: it names comments that it was shown, and that may   *)
(* be gone by now.                                                          *)
About(type, father, up) ==
  CASE type = "QUESTION" -> father = Nobody /\ up = Nobody
    [] type = "ANSWER"   -> father \in Existing({"QUESTION"}) /\ up = Nobody
    [] type = "REPLY"    -> up \in Existing({"ANSWER", "REPLY"}) /\ father = row[up].father

BeginCreate(r, u, type, father, up) ==
  /\ creq[r] = NoRequest
  /\ About(type, father, up)
  /\ creq' = [creq EXCEPT ![r] = [NoRequest EXCEPT
       !.at = "insert", !.type = type, !.user = u, !.father = father, !.up = up]]
  /\ UNCHANGED <<row, nstat, mails, missed>>

(* The comment that a new one is about: fComment in the code. *)
Target(q) == IF q.type = "REPLY" THEN q.up ELSE q.father

(* Whom the message goes to: the author of the note, too, when the comment  *)
(* that it is about is gone.                                                *)
Addressee(q) == IF Live(Target(q)) THEN row[Target(q)].user ELSE Author

(* Mutant: only answers are counted in their question. *)
CountAnswers(q, rows) ==
  IF q.type = "ANSWER" /\ Live(q.father) THEN [rows EXCEPT ![q.father].aCounts = @ + 1] ELSE rows

CountChild(q, rows) ==
  IF q.type # "QUESTION" /\ Live(q.father) THEN [rows EXCEPT ![q.father].aCounts = @ + 1] ELSE rows

(* The transaction of createOne *)
Insert(r) ==
  LET q == creq[r]  c == NextId IN
  /\ CommentAt(r, "insert") /\ c \in Comments
  /\ row' = CountChild(q, [row EXCEPT ![c] =
       [BlankRow EXCEPT !.status = "live", !.type = q.type, !.user = q.user,
                        !.father = q.father, !.up = q.up]])
  /\ creq' = [creq EXCEPT ![r].at = "message", ![r].comment = c,
                          ![r].to = Addressee(q), ![r].n = 1]
  /\ UNCHANGED <<nstat, mails, missed>>

(* Mutant: the comment that the new one is about may be missing. *)
FormattedAnyhow(q) == Live(q.comment)

(* commentContent finds both comments, or format throws. *)
Formatted(q) == Live(q.comment) /\ (q.type # "QUESTION" => Live(Target(q)))

Message(r) ==
  LET q == creq[r] IN
  /\ CommentAt(r, "message")
  /\ q.to # Public => Formatted(q)
  /\ mails' = IF q.to = Public THEN mails ELSE mails \cup {[to |-> q.to, comment |-> q.comment]}
  /\ CommentGoto(r, "exists")
  /\ UNCHANGED <<row, nstat, missed>>

--------------------------------------------------------------------------------
(* deleteOne *)

BeginDelete(r, c) ==
  /\ creq[r] = NoRequest
  /\ Live(c)
  /\ creq' = [creq EXCEPT ![r] = [NoRequest EXCEPT !.at = "delete", !.comment = c]]
  /\ UNCHANGED <<row, nstat, mails, missed>>

(* A question takes its thread along, an answer the replies to it, but not   *)
(* the replies to these.                                                     *)
Doomed(c) ==
  { d \in LiveRows :
      \/ d = c
      \/ row[c].type = "QUESTION" /\ row[d].father = c
      \/ row[c].type = "ANSWER" /\ row[d].up = c }

UncountChildren(father, n, rows) ==
  IF Live(father) THEN [rows EXCEPT ![father].aCounts = @ - n] ELSE rows

(* The transaction of deleteOne; the comment may be gone since it was read.  *)
Delete(r) ==
  LET c == creq[r].comment
      gone == Doomed(c)
      n == Cardinality(gone)
      rows == [d \in Comments |-> IF d \in gone THEN [row[d] EXCEPT !.status = "deleted"] ELSE row[d]] IN
  /\ CommentAt(r, "delete")
  /\ row' = IF row[c].type = "QUESTION" THEN rows ELSE UncountChildren(row[c].father, n, rows)
  /\ creq' = [creq EXCEPT ![r].at = "exists", ![r].n = -n]
  /\ UNCHANGED <<nstat, mails, missed>>

--------------------------------------------------------------------------------
(* updateStat by 1 after a comment is created, and by as many as were        *)
(* deleted: outside the transaction, as long as the request lives.           *)

(* A like, a view or a share of the note: another field of the same hash *)
BeginOther(r) ==
  /\ creq[r] = NoRequest
  /\ CommentGoto(r, "exists")
  /\ UNCHANGED <<row, nstat, mails, missed>>

StatShown == IF nstat.cached = Nobody THEN nstat.saved ELSE nstat.cached

FindStat(r) ==
  /\ CommentAt(r, "exists")
  /\ CommentGoto(r, IF nstat.cached = Nobody THEN "read" ELSE "add")
  /\ UNCHANGED <<row, nstat, mails, missed>>

(* getOne: the hash, if somebody has loaded it meanwhile, or the row *)
ReadStat(r) ==
  /\ CommentAt(r, "read")
  /\ creq' = [creq EXCEPT ![r].at = "load", ![r].got = StatShown]
  /\ UNCHANGED <<row, nstat, mails, missed>>

LoadStat(r) ==
  /\ CommentAt(r, "load")
  /\ nstat' = [nstat EXCEPT !.cached = creq[r].got]
  /\ CommentGoto(r, "add")
  /\ UNCHANGED <<row, mails, missed>>

(* Mutant: a deletion takes one off, however many comments it deletes. *)
AddedOnce(n) == (IF nstat.cached = Nobody THEN 0 ELSE nstat.cached) + (IF n < 0 THEN -1 ELSE n)

(* HINCRBY takes a hash that is missing for 0. *)
StatAdded(n) == (IF nstat.cached = Nobody THEN 0 ELSE nstat.cached) + n

AddStat(r) ==
  /\ CommentAt(r, "add")
  /\ nstat' = [nstat EXCEPT !.cached = StatAdded(creq[r].n)]
  /\ CommentEnds(r)
  /\ UNCHANGED <<row, mails, missed>>

(* The request ends with an error, or its worker dies: before it commits, or  *)
(* after, and the comment stays or is gone, and is not counted.  A message    *)
(* that cannot be formatted is one of the errors.                             *)
CommentFails(r) ==
  /\ creq[r] # NoRequest
  /\ missed' = missed + creq[r].n
  /\ CommentEnds(r)
  /\ UNCHANGED <<row, nstat, mails>>

(* The master begins to write the hash back, and ends it with FLUSHALL; the  *)
(* column is unsigned.                                                       *)
BeginSync ==
  /\ ~nstat.syncing
  /\ nstat' = [nstat EXCEPT !.syncing = TRUE]
  /\ UNCHANGED <<row, mails, creq, missed>>

EndSync ==
  /\ nstat.syncing /\ StatShown >= 0
  /\ nstat' = [saved |-> StatShown, cached |-> Nobody, syncing |-> FALSE]
  /\ UNCHANGED <<row, mails, creq, missed>>

(* The hash is deleted, and the statement that writes it fails. *)
SyncLoses ==
  /\ nstat.syncing
  /\ nstat' = [nstat EXCEPT !.cached = Nobody, !.syncing = FALSE]
  /\ UNCHANGED <<row, mails, creq, missed>>

InStat(r) == creq[r].at \in {"read", "load", "add"}

(* As Overlap of StatCache: an update meets the synchronisation, or a        *)
(* request that has read the statistic to load the hash with it.             *)
StatOverlap ==
  \/ nstat.syncing /\ \E r \in CommentRequests : InStat(r)
  \/ \E r, q \in CommentRequests :
       r # q /\ CommentAt(r, "load") /\ InStat(q) /\ creq[q].n # 0

--------------------------------------------------------------------------------

CommentStep(r) ==
  \/ \E u \in Writers, t \in Types, f, up \in Comments \cup {Nobody} :
       BeginCreate(r, u, t, f, up)
  \/ \E c \in Comments : BeginDelete(r, c)
  \/ BeginOther(r)
  \/ Insert(r) \/ Message(r) \/ Delete(r)
  \/ FindStat(r) \/ ReadStat(r) \/ LoadStat(r) \/ AddStat(r)
  \/ CommentFails(r)

CommentsNext ==
  \/ /\ (\E r \in CommentRequests : CommentStep(r)) \/ BeginSync \/ EndSync
     /\ blurred' = (blurred \/ StatOverlap')
  \/ SyncLoses /\ blurred' = TRUE

CommentsSpec == CommentsInit /\ [][CommentsNext]_commentVars

--------------------------------------------------------------------------------
(* What is shown *)

(* getSubAll: the replies of question q in their order, the comments that   *)
(* they are about, each once, in the order in which they are first named,   *)
(* and the user that reply i is said to be about.                           *)
SubPage(q)    == SetToSortSeq({ c \in ThreadOf(q) : row[c].up # Nobody }, <)
UpIds(q)   == [i \in DOMAIN SubPage(q) |-> row[SubPage(q)[i]].up]
FirstAt(q, c) == CHOOSE i \in DOMAIN UpIds(q) :
                   UpIds(q)[i] = c /\ \A j \in DOMAIN UpIds(q) : UpIds(q)[j] = c => i <= j
FoundComments(q)   == SetToSortSeq({ c \in ToSet(UpIds(q)) : Live(c) },
                                   LAMBDA c, d : FirstAt(q, c) < FirstAt(q, d))
ToUser(q, i) == IF i \in DOMAIN FoundComments(q) THEN row[FoundComments(q)[i]].user ELSE Nobody

(* getAll shows the first answer of a question that has answers, and throws *)
(* when there is none: it uses subComment before it asks whether there is.  *)
ShownComments(q) == row[q].aCounts > 0 => \E c \in ThreadOf(q) : row[c].type = "ANSWER"

--------------------------------------------------------------------------------
(* Properties *)

CommentsTypeOK ==
  /\ row \in [Comments -> CommentRow]
  /\ nstat \in StatRow
  /\ mails \subseteq [to : Users, comment : Comments]
  /\ creq \in [CommentRequests -> Request]
  /\ missed \in Int /\ blurred \in BOOLEAN

(* However answers, replies and deletions overlap, and also when one comment *)
(* is deleted twice, aCounts of a question is the number of the comments     *)
(* under it.  So no decrement of the unsigned column ever fails.             *)
AnswersCounted ==
  \A q \in LiveRows : row[q].type = "QUESTION" => row[q].aCounts = Cardinality(ThreadOf(q))

AtRest == \A r \in CommentRequests : creq[r] = NoRequest

(* Each question counts its own, always.  The statistic of the note, when no *)
(* request is in progress, is the number of its comments less what failed    *)
(* requests did not add: through creations and deletions that overlap, and   *)
(* whoever loads and writes back the hash, as long as no update meets the    *)
(* synchronisation or another request that is loading.                       *)
CommentsCounted ==
  /\ AnswersCounted
  /\ AtRest /\ ~blurred => StatShown = Cardinality(LiveRows) - missed

(* A message about an answer or a reply goes to whoever wrote the comment    *)
(* that it is about: when that comment was deleted meanwhile, the author of  *)
(* the note, whom the code then chooses, gets no message either.             *)
MailsAddressed ==
  \A m \in mails :
    LET c == row[m.comment] IN
    m.to = IF c.type = "QUESTION" THEN Author ELSE row[Target(c)].user

(* "The userId of whom the comment is about" (note.comment.dto.ts)           *)
RepliesAddressed ==
  \A q \in LiveRows : \A i \in DOMAIN SubPage(q) :
    Live(UpIds(q)[i]) => ToUser(q, i) = row[UpIds(q)[i]].user

(* The comments of a note can always be shown: a question that has lost its  *)
(* answers is shown without one ("if (subComment)").                         *)
AnswersShown == \A q \in LiveRows : row[q].type = "QUESTION" => ShownComments(q)
================================================================================
