------------------------------ MODULE SharedState ------------------------------
(* What the worker processes share, side by side: the locks, the copies of    *)
(* rows in redis, the tokens that the master hands out, the first login and   *)
(* its keys, and the rows of visits and shares.  None of them touches the     *)
(* state of another, so that a behaviour is about one of them, and the others *)
(* stay as they began: part says which it is.                                 *)
EXTENDS RequestLock, RowCaches, MasterWorkers, SystemMails, Tallies

VARIABLE part

SharedInit ==
  /\ part \in {"locks", "copies", "processes", "mails", "visits"}
  /\ Init /\ CacheInit /\ ProcessInit /\ MailInit /\ TalliesInit
  /\ part # "copies" => kind = "user"

Locking ==
  /\ part = "locks" /\ Next
  /\ UNCHANGED <<part, cacheVars, processVars, mailVars, tallyVars>>
Copying ==
  /\ part = "copies" /\ CacheNext
  /\ UNCHANGED <<part, vars, processVars, mailVars, tallyVars>>
Governing ==
  /\ part = "processes" /\ ProcessNext
  /\ UNCHANGED <<part, vars, cacheVars, mailVars, tallyVars>>
Mailing ==
  /\ part = "mails" /\ MailNext
  /\ UNCHANGED <<part, vars, cacheVars, processVars, tallyVars>>
Visiting ==
  /\ part = "visits" /\ TalliesNext
  /\ UNCHANGED <<part, vars, cacheVars, processVars, mailVars>>

SharedNext == Locking \/ Copying \/ Governing \/ Mailing \/ Visiting
sharedVars == <<part, vars, cacheVars, processVars, mailVars, tallyVars>>

(* The fairness of each module, for the behaviours that are about it. *)
SharedFairness ==
  /\ \A r \in Requests : WF_vars(part = "locks" /\ Handler(r))
  /\ \A k \in Keys : WF_vars(part = "locks" /\ Expire(k))
  /\ \A r \in Callers : WF_cacheVars(part = "copies" /\ Step(r))
  /\ \A k \in Rows : WF_cacheVars(part = "copies" /\ ExpireCopy(k))
  /\ \A w \in Children :
       /\ WF_processVars(part = "processes" /\ Receive(w))
       /\ WF_processVars(part = "processes" /\ Relay(w))

SharedSpec == SharedInit /\ [][SharedNext]_sharedVars /\ SharedFairness

(* Types *)
SharedTypeOK ==
  TypeOK /\ CachesTypeOK /\ WorkersTypeOK /\ MailsTypeOK /\ TalliesTypeOK

(* SomeoneServed of RequestLock, in the behaviours that are about the locks *)
KeysServed == \A k \in Keys : []<>(part = "locks" => \E r \in working : KeyOf[r] = k)
================================================================================
