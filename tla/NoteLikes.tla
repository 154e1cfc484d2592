------------------------------- MODULE NoteLikes -------------------------------
(***************************************************************************)
(* The likes of the notes of one author (kind "note") or of the comments   *)
(* of one author (kind "comment").  A like is a row of note_likes or of    *)
(* comment_likes, a number beside it in the statistic of what is liked,    *)
(* and, for notes, a number in the statistic of the author.  The numbers   *)
(* live in redis and are moved one by one; StatCache says how exact each   *)
(* of them is by itself, so that one updateStat is one step here.          *)
(*                                                                         *)
(* The lock of createLike is left out: what it lets through is any number  *)
(* of requests (RequestLock), and a second like of one user is stopped by  *)
(* the unique index of the rows.                                           *)
(***************************************************************************)
EXTENDS Integers, FiniteSetsExt

CONSTANTS
  Likers,        \* who likes
  Liked,         \* notes or comments of one author
  LikeRequests,  \* requests in progress at a time
  Kinds,         \* which kinds are looked at
  NoLiker,
  MaxRequests    \* bound on the number of requests begun

ASSUME LikeConstants ==
  /\ Kinds \subseteq {"note", "comment"}
  /\ MaxRequests \in Nat
  /\ IsFiniteSet(Likers) /\ IsFiniteSet(Liked) /\ IsFiniteSet(LikeRequests)
  /\ NoLiker \notin Likers \cup Liked

VARIABLES
  kind,         \* what is liked
  rows,         \* the rows of likes, as pairs
  likes,        \* likes[t]: the statistic of t
  authorLikes,  \* the statistic noteLikes of the author
  mails,        \* the messages sent to the author
  lreq,         \* lreq[r]: where request r is
  begun,
  spoiled       \* "redis": a statistic could not be moved; "like": a like was
                \* refused by the index or failed otherwise

statistics == <<likes, authorLikes>>
likeVars == <<kind, rows, likes, authorLikes, mails, lreq, begun, spoiled>>

Steps == {"idle", "save", "incr", "incrAuthor", "message", "delete", "decr", "decrAuthor"}
NoLike  == [at |-> "idle", user |-> NoLiker, thing |-> NoLiker]

LikesInit ==
  /\ kind \in Kinds
  /\ rows = {}
  /\ likes = [t \in Liked |-> 0] /\ authorLikes = 0 /\ mails = 0
  /\ lreq = [r \in LikeRequests |-> NoLike]
  /\ begun = 0
  /\ spoiled = {}

BeginLikes(r, u, t, at) ==
  /\ lreq[r] = NoLike /\ begun < MaxRequests
  /\ lreq' = [lreq EXCEPT ![r] = [at |-> at, user |-> u, thing |-> t]]
  /\ begun' = begun + 1
  /\ UNCHANGED <<kind, rows, statistics, mails, spoiled>>

BeginLike(r, u, t)   == BeginLikes(r, u, t, "save")
BeginUnlike(r, u, t) == BeginLikes(r, u, t, "delete")

LikeAt(r, at)   == lreq[r].at = at
Goto(r, at) == lreq' = [lreq EXCEPT ![r] = IF at = "idle" THEN NoLike ELSE [@ EXCEPT !.at = at]]
RowOf(r)    == <<lreq[r].user, lreq[r].thing>>

(* The catch of createLike lowers the likes of a note, whatever has failed.  *)
Catch == IF kind = "note" THEN "decr" ELSE "idle"

Save(r) ==
  /\ LikeAt(r, "save")
  /\ RowOf(r) \notin rows
  /\ rows' = rows \cup {RowOf(r)}
  /\ Goto(r, "incr")
  /\ UNCHANGED <<kind, statistics, mails, begun, spoiled>>

(* ER_DUP_ENTRY, or any other error of the insertion *)
SaveFails(r) ==
  /\ LikeAt(r, "save")
  /\ Goto(r, Catch)
  /\ spoiled' = spoiled \cup {"like"}
  /\ UNCHANGED <<kind, rows, statistics, mails, begun>>

Incr(r) ==
  /\ LikeAt(r, "incr")
  /\ likes' = [likes EXCEPT ![lreq[r].thing] = @ + 1]
  /\ Goto(r, IF kind = "note" THEN "incrAuthor" ELSE "message")
  /\ UNCHANGED <<kind, rows, authorLikes, mails, begun, spoiled>>

IncrAuthor(r) ==
  /\ LikeAt(r, "incrAuthor")
  /\ authorLikes' = authorLikes + 1
  /\ Goto(r, "message")
  /\ UNCHANGED <<kind, rows, likes, mails, begun, spoiled>>

Message(r) ==
  /\ LikeAt(r, "message")
  /\ mails' = mails + 1
  /\ Goto(r, "idle")
  /\ UNCHANGED <<kind, rows, statistics, begun, spoiled>>

(* format throws when the note, the save or the comment is gone.             *)
MessageFails(r) ==
  /\ LikeAt(r, "message")
  /\ Goto(r, Catch)
  /\ spoiled' = spoiled \cup {"like"}
  /\ UNCHANGED <<kind, rows, statistics, mails, begun>>

(* deleteLike deletes the likes of all users, and lowers the number by one.  *)
Delete(r) ==
  LET gone == { row \in rows : row[2] = lreq[r].thing } IN
  /\ LikeAt(r, "delete")
  /\ rows' = rows \ gone
  /\ Goto(r, IF gone = {} THEN "idle" ELSE "decr")
  /\ UNCHANGED <<kind, statistics, mails, begun, spoiled>>

(* Mutant: the author is not counted down. *)
DecrOnly(r) ==
  /\ LikeAt(r, "decr")
  /\ likes' = [likes EXCEPT ![lreq[r].thing] = @ - 1]
  /\ Goto(r, "idle")
  /\ UNCHANGED <<kind, rows, authorLikes, mails, begun, spoiled>>

Decr(r) ==
  /\ LikeAt(r, "decr")
  /\ likes' = [likes EXCEPT ![lreq[r].thing] = @ - 1]
  /\ Goto(r, IF kind = "note" THEN "decrAuthor" ELSE "idle")
  /\ UNCHANGED <<kind, rows, authorLikes, mails, begun, spoiled>>

DecrAuthor(r) ==
  /\ LikeAt(r, "decrAuthor")
  /\ authorLikes' = authorLikes - 1
  /\ Goto(r, "idle")
  /\ UNCHANGED <<kind, rows, likes, mails, begun, spoiled>>

(* A statistic cannot be moved, or the worker dies.  An error of incrLikes   *)
(* is caught like every other, and the numbers are lowered all the same.     *)
RedisFails(r) ==
  /\ lreq[r].at \in {"incr", "incrAuthor", "decr", "decrAuthor"}
  /\ \/ lreq[r].at \in {"incr", "incrAuthor"} /\ Goto(r, Catch)
     \/ Goto(r, "idle")
  /\ spoiled' = spoiled \cup {"redis"}
  /\ UNCHANGED <<kind, rows, statistics, mails, begun>>

LikesNext ==
  \E r \in LikeRequests :
    \/ \E u \in Likers, t \in Liked : BeginLike(r, u, t) \/ BeginUnlike(r, u, t)
    \/ Save(r) \/ SaveFails(r) \/ Incr(r) \/ IncrAuthor(r)
    \/ Message(r) \/ MessageFails(r)
    \/ Delete(r) \/ Decr(r) \/ DecrAuthor(r)
    \/ RedisFails(r)

LikesSpec == LikesInit /\ [][LikesNext]_likeVars

--------------------------------------------------------------------------------
(* Properties *)

LikesTypeOK ==
  /\ kind \in Kinds
  /\ rows \subseteq Likers \X Liked
  /\ likes \in [Liked -> Int] /\ authorLikes \in Int /\ mails \in Nat
  /\ lreq \in [LikeRequests -> [at : Steps, user : Likers \cup {NoLiker},
                                thing : Liked \cup {NoLiker}]]
  /\ begun \in 0..MaxRequests
  /\ spoiled \subseteq {"redis", "like"}

LikesAtRest == \A r \in LikeRequests : lreq[r] = NoLike

(* Whatever likes and unlikes overlap, are refused or fail at their message, *)
(* the likes of an author are the likes of the author's notes together, as   *)
(* long as redis moves both numbers.                                         *)
TotalsAgree ==
  (kind = "note" /\ LikesAtRest /\ "redis" \notin spoiled) =>
    authorLikes = MapThenSumSet(LAMBDA t : likes[t], Liked)

(* Taking back a like deletes the likes of everybody and lowers the number   *)
(* by one: so it says too much after that.  What holds is that nobody who    *)
(* likes something goes uncounted, as long as no like has failed (for notes) *)
(* and redis has moved the numbers.                                          *)
LikersCounted ==
  (LikesAtRest /\ "redis" \notin spoiled /\ (kind = "note" => "like" \notin spoiled)) =>
    \A t \in Liked : Cardinality({ row \in rows : row[2] = t }) <= likes[t]

(* What is true of the numbers of likes *)
LikesCounted == TotalsAgree /\ LikersCounted

(* "The number of likes" (note.stat.entity.ts) is the number of the users    *)
(* who like the note.                                                        *)
LikesExact ==
  (LikesAtRest /\ "redis" \notin spoiled) =>
    \A t \in Liked : Cardinality({ row \in rows : row[2] = t }) = likes[t]
================================================================================
