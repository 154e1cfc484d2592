------------------------------ MODULE RequestLock ------------------------------
(***************************************************************************)
(* RedisService.lock and unlock, and the way the handlers of POST requests *)
(* use them.  A handler runs in one of the worker processes; the key, made *)
(* of the kind of request and of what it is about, is in redis, which all  *)
(* of them share.                                                          *)
(*                                                                         *)
(*   try { if (!(await lock(key))) return;  ...body... }                   *)
(*   finally { await unlock(key) }                                         *)
(*                                                                         *)
(* lock reads the key (GET) and, when it is absent, writes it (SET .. NX)  *)
(* without looking at the reply; unlock deletes it (DEL) whoever wrote it. *)
(* A refused request returns inside the try, so that it deletes the key as *)
(* well.  PointSortService.createOne locks before its try, and returns the *)
(* promise of its insertion without waiting for it, so that its finally    *)
(* runs first.                                                             *)
(*                                                                         *)
(* The module keeps the order of those redis commands; the body is one     *)
(* step, which stands for a commit and for a throw alike.                  *)
(***************************************************************************)
EXTENDS Naturals

CONSTANTS
  Requests,   \* the clients; each sends its request again and again
  Keys,       \* the redis keys
  KeyOf,      \* KeyOf[r]: the key of the request r
  Sorting,    \* the requests to PointSortService.createOne
  Workers,    \* the worker processes
  WorkerOf,   \* WorkerOf[r]: the worker that serves r
  MaxCrashes, \* bound on the crashes of workers
  None,       \* no key in redis
  Orphan      \* a key whose writer died with its worker

ASSUME LockConstants ==
  /\ KeyOf \in [Requests -> Keys]
  /\ Sorting \subseteq Requests
  /\ WorkerOf \in [Requests -> Workers]
  /\ MaxCrashes \in Nat
  /\ {None, Orphan} \cap Requests = {}
  /\ None # Orphan

VARIABLES
  key,      \* key[k]: who wrote the key k, or None
  pc,       \* pc[r]: the next redis command of r, or what it waits for
  working,  \* the requests whose statements are being executed by MySQL
  crashes   \* how many times a worker has died

vars == <<key, pc, working, crashes>>

Init ==
  /\ key = [k \in Keys |-> None]
  /\ pc = [r \in Requests |-> "idle"]
  /\ working = {}
  /\ crashes = 0

Goto(r, l) == pc' = [pc EXCEPT ![r] = l]

(* lock: GET.  A request that finds the key is refused. *)
Get(r) ==
  /\ pc[r] = "idle"
  /\ Goto(r, IF key[KeyOf[r]] = None THEN "set"
             ELSE IF r \in Sorting THEN "idle" ELSE "unlock")
  /\ UNCHANGED <<key, working, crashes>>

(* lock: SET key 1 EX 30 NX.  It returns true whatever redis answers. *)
SetNX(r) ==
  /\ pc[r] = "set"
  /\ key' = IF key[KeyOf[r]] = None THEN [key EXCEPT ![KeyOf[r]] = r] ELSE key
  /\ working' = working \cup {r}
  /\ Goto(r, "body")
  /\ UNCHANGED crashes

(* The body commits or throws; a sort is still being inserted after it. *)
Body(r) ==
  /\ pc[r] = "body"
  /\ working' = IF r \in Sorting THEN working ELSE working \ {r}
  /\ Goto(r, "unlock")
  /\ UNCHANGED <<key, crashes>>

(* Mutant: a request whose body threw ends without its finally. *)
End(r) ==
  /\ pc[r] = "unlock"
  /\ Goto(r, "idle")
  /\ UNCHANGED <<key, working, crashes>>

(* unlock: DEL. *)
Unlock(r) ==
  /\ pc[r] = "unlock"
  /\ key' = [key EXCEPT ![KeyOf[r]] = None]
  /\ Goto(r, IF r \in working THEN "insert" ELSE "idle")
  /\ UNCHANGED <<working, crashes>>

(* The insertion of a sort completes, before or after the DEL. *)
Inserted(r) ==
  /\ r \in working
  /\ pc[r] \in {"insert", "unlock"}
  /\ working' = working \ {r}
  /\ Goto(r, IF pc[r] = "insert" THEN "idle" ELSE "unlock")
  /\ UNCHANGED <<key, crashes>>

(* Mutant: the key is written without EX. *)
ExpireNever(k) == FALSE /\ UNCHANGED vars

(* The 30 seconds of the key are over, whatever its writer is doing. *)
Expire(k) ==
  /\ key[k] # None
  /\ key' = [key EXCEPT ![k] = None]
  /\ UNCHANGED <<pc, working, crashes>>

(* A worker dies; MySQL rolls its open transactions back. *)
Crash(w) ==
  LET dead == { r \in Requests : WorkerOf[r] = w } IN
  /\ crashes < MaxCrashes
  /\ crashes' = crashes + 1
  /\ key' = [k \in Keys |-> IF key[k] \in dead THEN Orphan ELSE key[k]]
  /\ pc' = [r \in Requests |-> IF r \in dead THEN "idle" ELSE pc[r]]
  /\ working' = working \ dead

Handler(r) == Get(r) \/ SetNX(r) \/ Body(r) \/ Unlock(r) \/ Inserted(r)

Next ==
  \/ \E r \in Requests : Handler(r)
  \/ \E k \in Keys : Expire(k)
  \/ \E w \in Workers : Crash(w)

Spec == Init /\ [][Next]_vars

(* A request that was accepted by a worker runs on; clients try again; and *)
(* redis drops a key whose time is over.                                   *)
Fairness ==
  /\ \A r \in Requests : WF_vars(Handler(r))
  /\ \A k \in Keys : WF_vars(Expire(k))

FairSpec == Spec /\ Fairness

--------------------------------------------------------------------------------
(* Properties *)

TypeOK ==
  /\ key \in [Keys -> Requests \cup {None, Orphan}]
  /\ pc \in [Requests -> {"idle", "set", "body", "unlock", "insert"}]
  /\ working \subseteq Requests
  /\ crashes \in 0..MaxCrashes

(* The key is never left behind by a request that has ended: a key in redis *)
(* was written by a request that has not reached its DEL, or by one whose   *)
(* worker died.  So a request that is alone is let in.                      *)
KeysHaveOwners ==
  \A k \in Keys : key[k] \in Requests =>
    KeyOf[key[k]] = k /\ pc[key[k]] \in {"body", "unlock"}

(* For every key it is again and again the case that a request runs its     *)
(* body: refusals never chase each other forever, and the key of a worker   *)
(* that died does not lock its user out.                                    *)
SomeoneServed ==
  \A k \in Keys : []<>(\E r \in working : KeyOf[r] = k)

(* "Lock the POST requests" (comment of lock): two requests with the same   *)
(* key are never at work together.                                          *)
MutualExclusion ==
  \A q, r \in working : KeyOf[q] = KeyOf[r] => q = r
================================================================================
