----------------------------- MODULE MasterWorkers -----------------------------
(***************************************************************************)
(* The master process, its workers, and the access token of the WeChat     *)
(* interfaces that all of them hold.  The master fetches a token when it   *)
(* starts and by a timer and sends it to all workers; a worker that an     *)
(* interface refuses fetches a token for itself, and tells the master,     *)
(* which passes it on to all workers and does not keep it.  A worker that  *)
(* is gone is forked again, with the token of the master, but without the  *)
(* listeners that the first workers have.  Once a day the master uploads   *)
(* an image with a token that it fetches for that alone, and sends its     *)
(* media id to the workers.                                                *)
(*                                                                         *)
(* WeChat is external: each token that it issues makes the earlier ones    *)
(* invalid; it may answer without a token (Bad), or not at all, which      *)
(* changes nothing here.  Tokens are numbered as they are issued.          *)
(* Messages between two processes arrive in their order, and those to a    *)
(* new process wait until it listens.  The STS of the object storage takes *)
(* the same way as the token of the master and is left out.                *)
(***************************************************************************)
EXTENDS Naturals, Sequences

CONSTANTS
  Children,    \* the worker processes
  MaxAsked,    \* bound on the questions for a token
  MaxUploads,  \* bound on the uploads
  MaxExits,    \* bound on the crashes of workers
  NoToken

Bad    == 0
Tokens == 0..MaxAsked

ASSUME WorkerConstants ==
  /\ MaxAsked \in Nat /\ MaxUploads \in Nat /\ MaxExits \in Nat
  /\ NoToken \notin Tokens
  /\ {"init", "timer"} \cap Children = {}

VARIABLES
  alive,      \* whether the master is
  up,         \* up[w]: worker w is running
  listened,   \* listened[w]: the master listens to the events of w
  masterTok,  \* the token in the configuration of the master
  tok,        \* tok[w]: the token in the configuration of w
  kefu,       \* kefu[w]: whether w knows the media id of the image
  toWorker,   \* toWorker[w]: messages from the master to w
  toMaster,   \* toMaster[w]: tokens from w to the master
  answer,     \* answer[x]: the answer of WeChat that x has not handled
  started,    \* whether InitService.wxToken has asked
  issued,     \* the last token that WeChat has issued
  asked, uploads, exits

ipc     == <<toWorker, toMaster>>
wechat  == <<answer, started, issued, asked>>
workers == <<up, listened, exits>>
processVars == <<alive, up, listened, masterTok, tok, kefu, toWorker, toMaster,
                 answer, started, issued, asked, uploads, exits>>

Askers   == {"init", "timer"} \cup Children
Messages == [type : {"token"}, token : Tokens] \cup [type : {"media"}, known : BOOLEAN]
Token(t) == [type |-> "token", token |-> t]
Media(b) == [type |-> "media", known |-> b]

ProcessInit ==
  /\ alive = TRUE
  /\ up = [w \in Children |-> TRUE] /\ listened = [w \in Children |-> TRUE]
  /\ masterTok = NoToken /\ tok = [w \in Children |-> NoToken]
  /\ kefu = [w \in Children |-> FALSE]
  /\ toWorker = [w \in Children |-> <<>>] /\ toMaster = [w \in Children |-> <<>>]
  /\ answer = [x \in Askers |-> NoToken]
  /\ started = FALSE
  /\ issued = 0 /\ asked = 0 /\ uploads = 0 /\ exits = 0

--------------------------------------------------------------------------------

(* accessToken: WeChat answers with a new token, or with an error.          *)
Ask(x) ==
  /\ alive /\ asked < MaxAsked /\ answer[x] = NoToken
  /\ asked' = asked + 1
  /\ \E ok \in BOOLEAN :
       /\ issued' = IF ok THEN issued + 1 ELSE issued
       /\ answer' = [answer EXCEPT ![x] = IF ok THEN issued + 1 ELSE Bad]
  /\ UNCHANGED <<alive, workers, masterTok, tok, kefu, ipc, uploads>>

InitAsk   == ~started /\ started' = TRUE /\ Ask("init")
TimerAsk  == UNCHANGED started /\ Ask("timer")

(* sendAll: a child that is not connected gets an 'error' event, for which  *)
(* only listenChild has a listener.  Without one the master dies, and stops *)
(* its workers.                                                             *)
Unheard == \E w \in Children : ~up[w] /\ ~listened[w]

SendAll(m) ==
  /\ toWorker' = [w \in Children |-> IF up[w] THEN Append(toWorker[w], m) ELSE toWorker[w]]
  /\ alive' = ~Unheard
  /\ up' = [w \in Children |-> up[w] /\ ~Unheard]

Handled(x) == answer' = [answer EXCEPT ![x] = NoToken]

(* The .then of InitService.wxToken *)
InitToken ==
  /\ alive /\ answer["init"] # NoToken
  /\ SendAll(Token(answer["init"]))
  /\ masterTok' = answer["init"]
  /\ Handled("init")
  /\ UNCHANGED <<listened, tok, kefu, toMaster, started, issued, asked, uploads, exits>>

(* cbWxTokenUpdate: it looks at the token that it has before it takes the    *)
(* new one, and throws when there is none.                                  *)
TimerToken ==
  /\ alive /\ answer["timer"] # NoToken
  /\ Handled("timer")
  /\ IF masterTok = NoToken
       THEN UNCHANGED <<alive, up, masterTok, toWorker>>
       ELSE SendAll(Token(answer["timer"])) /\ masterTok' = answer["timer"]
  /\ UNCHANGED <<listened, tok, kefu, toMaster, started, issued, asked, uploads, exits>>

(* tempMedia: the token that it fetches is used for the upload and not kept; *)
(* the workers are told of an upload that failed, too.                       *)
TempMedia(done) ==
  /\ alive /\ uploads < MaxUploads /\ asked < MaxAsked
  /\ uploads' = uploads + 1 /\ asked' = asked + 1
  /\ issued' = issued + 1
  /\ SendAll(Media(done))
  /\ UNCHANGED <<listened, masterTok, tok, kefu, toMaster, answer, started, exits>>

--------------------------------------------------------------------------------
(* A worker *)

(* An interface fails, for a token that is not valid any more or otherwise.  *)
(* Without any token the request throws before it asks for one.              *)
TryUpdateToken(w) ==
  /\ up[w] /\ tok[w] # NoToken
  /\ UNCHANGED started
  /\ Ask(w)

UpdatedToken(w) ==
  /\ up[w] /\ answer[w] # NoToken
  /\ tok' = [tok EXCEPT ![w] = answer[w]]
  /\ toMaster' = IF listened[w] THEN [toMaster EXCEPT ![w] = Append(@, answer[w])] ELSE toMaster
  /\ Handled(w)
  /\ UNCHANGED <<alive, workers, masterTok, kefu, toWorker, started, issued, asked, uploads>>

Receive(w) ==
  /\ up[w] /\ toWorker[w] # <<>>
  /\ LET m == Head(toWorker[w]) IN
     /\ tok' = IF m.type = "token" THEN [tok EXCEPT ![w] = m.token] ELSE tok
     /\ kefu' = IF m.type = "media" THEN [kefu EXCEPT ![w] = m.known] ELSE kefu
  /\ toWorker' = [toWorker EXCEPT ![w] = Tail(@)]
  /\ UNCHANGED <<alive, workers, masterTok, toMaster, wechat, uploads>>

(* Mutant: the sender is not told its own token again. *)
RelayToOthers(w) ==
  /\ alive /\ toMaster[w] # <<>> /\ ~Unheard
  /\ toWorker' = [v \in Children |-> IF up[v] /\ v # w THEN Append(toWorker[v], Token(Head(toMaster[w])))
                                    ELSE toWorker[v]]
  /\ toMaster' = [toMaster EXCEPT ![w] = Tail(@)]
  /\ UNCHANGED <<alive, workers, masterTok, tok, kefu, wechat, uploads>>

(* The listener of listenChild: what w reports is sent to all, w included.   *)
Relay(w) ==
  /\ alive /\ toMaster[w] # <<>>
  /\ SendAll(Token(Head(toMaster[w])))
  /\ toMaster' = [toMaster EXCEPT ![w] = Tail(@)]
  /\ UNCHANGED <<listened, masterTok, tok, kefu, wechat, uploads, exits>>

--------------------------------------------------------------------------------
(* Crashes *)

(* What the worker has sent arrives or is lost; what was sent to it is lost. *)
Exit(w) ==
  /\ alive /\ up[w] /\ exits < MaxExits
  /\ exits' = exits + 1
  /\ up' = [up EXCEPT ![w] = FALSE]
  /\ tok' = [tok EXCEPT ![w] = NoToken] /\ kefu' = [kefu EXCEPT ![w] = FALSE]
  /\ toWorker' = [toWorker EXCEPT ![w] = <<>>]
  /\ toMaster' \in {toMaster, [toMaster EXCEPT ![w] = <<>>]}
  /\ Handled(w)
  /\ UNCHANGED <<alive, listened, masterTok, started, issued, asked, uploads>>

(* Mutant: the new worker is sent no token. *)
ForkSilent(W) == UNCHANGED toWorker
(* The token is sent to the child that was just forked. *)
SendToken(W) == toWorker' = [w \in Children |-> IF w \in W THEN <<Token(masterTok)>> ELSE toWorker[w]]

Fork(W) ==
  /\ up' = [w \in Children |-> up[w] \/ w \in W]
  /\ listened' = [w \in Children |-> listened[w] /\ w \notin W]
  /\ UNCHANGED <<alive, masterTok, tok, kefu, toMaster, wechat, uploads, exits>>

(* checkChildProcess: without a token it throws once it has forked one.      *)
CheckChild ==
  LET down == { w \in Children : ~up[w] } IN
  /\ alive /\ down # {}
  /\ IF masterTok = NoToken
       THEN (\E w \in down : Fork({w})) /\ UNCHANGED toWorker
       ELSE Fork(down) /\ SendToken(down)

ProcessNext ==
  \/ InitAsk \/ TimerAsk \/ InitToken \/ TimerToken
  \/ \E done \in BOOLEAN : TempMedia(done)
  \/ \E w \in Children :
       TryUpdateToken(w) \/ UpdatedToken(w) \/ Receive(w) \/ Relay(w) \/ Exit(w)
  \/ CheckChild

ProcessSpec == ProcessInit /\ [][ProcessNext]_processVars

(* A process handles the messages that have arrived. *)
ProcessFairness == \A w \in Children : WF_processVars(Receive(w)) /\ WF_processVars(Relay(w))

FairProcessSpec == ProcessSpec /\ ProcessFairness

--------------------------------------------------------------------------------
(* Properties *)

WorkersTypeOK ==
  /\ alive \in BOOLEAN /\ started \in BOOLEAN
  /\ up \in [Children -> BOOLEAN] /\ listened \in [Children -> BOOLEAN]
  /\ masterTok \in Tokens \cup {NoToken}
  /\ tok \in [Children -> Tokens \cup {NoToken}] /\ kefu \in [Children -> BOOLEAN]
  /\ toWorker \in [Children -> Seq(Messages)] /\ toMaster \in [Children -> Seq(Tokens)]
  /\ answer \in [Askers -> Tokens \cup {NoToken}]
  /\ issued \in Tokens

Quiet == \A w \in Children : toWorker[w] = <<>> /\ toMaster[w] = <<>>

(* Whatever workers refresh at the same time, with the timer in between:     *)
(* once all messages have arrived, the workers that were not forked again    *)
(* hold one token.  It takes the worker that refreshed to be told again.     *)
TokensAgree ==
  alive /\ Quiet =>
    \A v, w \in Children : up[v] /\ up[w] /\ listened[v] /\ listened[w] => tok[v] = tok[w]

(* A worker gets a token, also one that is forked again and again, before    *)
(* or after the master has its first.                                        *)
TokensArrive ==
  \A w \in Children :
    (alive /\ masterTok # NoToken /\ up[w]) ~> (tok[w] # NoToken \/ ~up[w])

(* "Listen to the events of the child processes" (listenChild): an error of  *)
(* a child is logged, and the master goes on.                                *)
MasterLives == alive
================================================================================
