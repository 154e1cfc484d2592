------------------------------ MODULE SystemMails ------------------------------
(***************************************************************************)
(* The handlers that end with a message of the system: the first login of  *)
(* a user, who is created and welcomed, and the audit of a recommendation, *)
(* whose author is told.  Neither is one transaction: the account, the     *)
(* welcome, the flag isNotified and the token are written one after the    *)
(* other, and so are the verdict and the message about it.                 *)
(*                                                                         *)
(* The locks are RedisService.lock: GET, then SET, and DEL by everybody.   *)
(* That of an audit is made of the auditor, so that two auditors are never *)
(* kept apart; who is refused has changed nothing and is left out.  A      *)
(* login that is refused goes on without an account: its message is        *)
(* addressed to user 0, and no hint is found for an undefined user, which  *)
(* throws.                                                                 *)
(***************************************************************************)
EXTENDS Naturals

CONSTANTS
  Newcomers,     \* the wxOpenIds
  Recommends,    \* the recommendations
  MailRequests,  \* the requests
  MaxAsks,       \* bound on the requests that are made
  NoOne          \* no guest, no recommendation

ASSUME MailConstants ==
  /\ MaxAsks \in Nat
  /\ Newcomers \cap Recommends = {} /\ NoOne \notin Newcomers \cup Recommends

VARIABLES
  account,   \* account[g]: the row of the user, by its flag isNotified
  welcomes,  \* welcomes[g]: how many welcomes the user was sent
  creating,  \* the guests whose key user:create:locked is in redis
  signing,   \* the guests whose key user:update:token:locked is in redis
  sessions,  \* the guests whose key user:logined is in redis
  verdict,   \* verdict[i]: isAudit and isPassed of the recommendation
  told,      \* told[i]: the verdict in the last message to its author
  ask,       \* ask[r]: what r asks for, and its next statement
  blurred,   \* about whom requests have overlapped, failed or were made late
  asks       \* how many requests were made

mailVars ==
  <<account, welcomes, creating, signing, sessions, verdict, told, ask, blurred, asks>>

loginVars == <<account, welcomes, creating, signing, sessions>>
auditVars == <<verdict, told>>

Resting  == [about |-> NoOne, at |-> "rest", passed |-> FALSE]
At(r, l) == ask[r].at = l
AskGoto(r, l) == ask' = [ask EXCEPT ![r] = IF l = "rest" THEN Resting ELSE [@ EXCEPT !.at = l]]
About(x) == { r \in MailRequests : ask[r].about = x }

MailInit ==
  /\ account = [g \in Newcomers |-> "none"]
  /\ welcomes = [g \in Newcomers |-> 0]
  /\ creating = {} /\ signing = {} /\ sessions = {}
  /\ verdict = [i \in Recommends |-> "none"]
  /\ told = [i \in Recommends |-> "none"]
  /\ ask = [r \in MailRequests |-> Resting]
  /\ blurred = {}
  /\ asks = 0

BeginAsk(r, x, l, passed) ==
  /\ At(r, "rest") /\ asks < MaxAsks
  /\ asks' = asks + 1
  /\ ask' = [ask EXCEPT ![r] = [about |-> x, at |-> l, passed |-> passed]]
  /\ blurred' = IF About(x) = {} THEN blurred ELSE blurred \cup {x}
  /\ UNCHANGED <<loginVars, auditVars>>

Login(r, g) == BeginAsk(r, g, "find", FALSE)

(* audit finds the recommendation first. *)
Audit(r, i, passed) == verdict[i] # "none" /\ BeginAsk(r, i, "update", passed)

(* createOne of a recommendation *)
Recommend(i) ==
  /\ verdict[i] = "none"
  /\ verdict' = [verdict EXCEPT ![i] = "open"]
  /\ UNCHANGED <<loginVars, told, ask, blurred, asks>>

--------------------------------------------------------------------------------
(* wxcodeLogin *)

(* createOne of a user: findOneNotException *)
Find(r) ==
  /\ At(r, "find")
  /\ AskGoto(r, CASE account[ask[r].about] = "none" -> "get"
               [] account[ask[r].about] = "new" -> "mail"
               [] account[ask[r].about] = "notified" -> "token")
  /\ UNCHANGED <<loginVars, auditVars, blurred, asks>>

(* The key is there: it is deleted all the same, and the request throws. *)
Refused(r) ==
  /\ At(r, "get") /\ ask[r].about \in creating
  /\ creating' = creating \ {ask[r].about}
  /\ AskGoto(r, "rest")
  /\ UNCHANGED <<account, welcomes, signing, sessions, auditVars, blurred, asks>>

GetKey(r) ==
  /\ At(r, "get") /\ ask[r].about \notin creating
  /\ AskGoto(r, "set")
  /\ UNCHANGED <<loginVars, auditVars, blurred, asks>>

SetKey(r) ==
  /\ At(r, "set")
  /\ creating' = creating \cup {ask[r].about}
  /\ AskGoto(r, "insert")
  /\ UNCHANGED <<account, welcomes, signing, sessions, auditVars, blurred, asks>>

(* The user, its statistic and its hint; wxOpenId is unique. *)
Insert(r) ==
  LET g == ask[r].about IN
  /\ At(r, "insert")
  /\ account' = IF account[g] = "none" THEN [account EXCEPT ![g] = "new"] ELSE account
  /\ AskGoto(r, IF account[g] = "none" THEN "unlock" ELSE "unlockAndThrow")
  /\ UNCHANGED <<welcomes, creating, signing, sessions, auditVars, blurred, asks>>

UnlockCreate(r) ==
  /\ At(r, "unlock") \/ At(r, "unlockAndThrow")
  /\ creating' = creating \ {ask[r].about}
  /\ AskGoto(r, IF At(r, "unlock") THEN "mail" ELSE "rest")
  /\ UNCHANGED <<account, welcomes, signing, sessions, auditVars, blurred, asks>>

(* Mutant: the flag is set before the message is there. *)
FlagFirst(r) ==
  LET g == ask[r].about IN
  /\ At(r, "mail")
  /\ account' = [account EXCEPT ![g] = "notified"]
  /\ AskGoto(r, "flag")
  /\ UNCHANGED <<welcomes, creating, signing, sessions, auditVars, blurred, asks>>

Mail(r) ==
  /\ At(r, "mail")
  /\ welcomes' = [welcomes EXCEPT ![ask[r].about] = @ + 1]
  /\ AskGoto(r, "flag")
  /\ UNCHANGED <<account, creating, signing, sessions, auditVars, blurred, asks>>

Flag(r) ==
  /\ At(r, "flag")
  /\ account' = [account EXCEPT ![ask[r].about] = "notified"]
  /\ AskGoto(r, "token")
  /\ UNCHANGED <<welcomes, creating, signing, sessions, auditVars, blurred, asks>>

(* TokenService.create: when the key is there, there is no token. *)
CreateToken(r) ==
  LET g == ask[r].about IN
  /\ At(r, "token") \/ At(r, "sign")
  /\ IF At(r, "token") /\ g \notin signing
     THEN signing' = signing \cup {g} /\ AskGoto(r, "sign")
     ELSE signing' = signing \ {g} /\ AskGoto(r, "session")
  /\ UNCHANGED <<account, welcomes, creating, sessions, auditVars, blurred, asks>>

Session(r) ==
  /\ At(r, "session")
  /\ sessions' = sessions \cup {ask[r].about}
  /\ AskGoto(r, "rest")
  /\ UNCHANGED <<account, welcomes, creating, signing, auditVars, blurred, asks>>

(* Keys expire; validate writes that of a user who is found. *)
KeyChanges(g) ==
  /\ \/ creating' = creating \ {g} /\ g \in creating /\ UNCHANGED <<signing, sessions>>
     \/ signing' = signing \ {g} /\ g \in signing /\ UNCHANGED <<creating, sessions>>
     \/ sessions' = sessions \ {g} /\ g \in sessions /\ UNCHANGED <<creating, signing>>
     \/ /\ g \notin sessions /\ account[g] # "none"
        /\ sessions' = sessions \cup {g} /\ UNCHANGED <<creating, signing>>
  /\ UNCHANGED <<account, welcomes, auditVars, ask, blurred, asks>>

--------------------------------------------------------------------------------
(* PointRecommendService.audit *)

Verdict(passed) == IF passed THEN "passed" ELSE "rejected"

Update(r) ==
  /\ At(r, "update")
  /\ verdict' = [verdict EXCEPT ![ask[r].about] = Verdict(ask[r].passed)]
  /\ AskGoto(r, "tell")
  /\ UNCHANGED <<loginVars, told, blurred, asks>>

Tell(r) ==
  /\ At(r, "tell")
  /\ told' = [told EXCEPT ![ask[r].about] = Verdict(ask[r].passed)]
  /\ AskGoto(r, "rest")
  /\ UNCHANGED <<loginVars, verdict, blurred, asks>>

--------------------------------------------------------------------------------
(* A statement fails, or the worker dies. *)
AskFails(r) ==
  /\ ~At(r, "rest")
  /\ blurred' = blurred \cup {ask[r].about}
  /\ AskGoto(r, "rest")
  /\ UNCHANGED <<loginVars, auditVars, asks>>

MailStep(r) ==
  \/ Find(r) \/ Refused(r) \/ GetKey(r) \/ SetKey(r) \/ Insert(r) \/ UnlockCreate(r)
  \/ Mail(r) \/ Flag(r) \/ CreateToken(r) \/ Session(r) \/ Update(r) \/ Tell(r)

MailNext ==
  \/ \E r \in MailRequests : MailStep(r) \/ AskFails(r)
  \/ \E r \in MailRequests : \E g \in Newcomers : Login(r, g)
  \/ \E r \in MailRequests : \E i \in Recommends : \E passed \in BOOLEAN : Audit(r, i, passed)
  \/ \E i \in Recommends : Recommend(i)
  \/ \E g \in Newcomers : KeyChanges(g)

MailSpec == MailInit /\ [][MailNext]_mailVars

--------------------------------------------------------------------------------
(* Properties *)

MailsTypeOK ==
  /\ account \in [Newcomers -> {"none", "new", "notified"}]
  /\ welcomes \in [Newcomers -> Nat]
  /\ creating \cup signing \cup sessions \subseteq Newcomers
  /\ verdict \in [Recommends -> {"none", "open", "passed", "rejected"}]
  /\ told \in [Recommends -> {"none", "passed", "rejected"}]
  /\ blurred \subseteq Newcomers \cup Recommends

(* A user is flagged as notified only with a welcome, whoever else logs in,  *)
(* fails or is refused at the same time, is not welcomed twice by logins     *)
(* that follow each other, and a session is that of a user.                  *)
Welcomed ==
  \A g \in Newcomers :
    /\ account[g] = "notified" => welcomes[g] > 0
    /\ account[g] = "none" => welcomes[g] = 0 /\ g \notin sessions
    /\ g \notin blurred => welcomes[g] <= 1

(* When audits follow each other, the author was told the verdict there is. *)
VerdictsTold ==
  \A i \in Recommends : About(i) = {} /\ i \notin blurred =>
    told[i] = IF verdict[i] = "open" THEN "none" ELSE verdict[i]

MailsSent == Welcomed /\ VerdictsTold
================================================================================
