--------------------------- MODULE SessionManager ---------------------------
(***************************************************************************)
(* The session service of sage-api: several replicas of SessionManager     *)
(* over one Redis (services/session_manager.py, services/session_store.py, *)
(* with the lookups of api/messages.py and api/sessions.py in front).      *)
(*                                                                         *)
(* A request is handled by a coroutine.  Between two awaits it runs alone  *)
(* on its replica; every Redis command is one step at the server, so each  *)
(* action below is one Redis command or one stretch of local code.  A      *)
(* request id stands for one request and is used once.  The id of the      *)
(* request that built an Agent object stands for the object.  A history is *)
(* the sequence of the messages stored; usage counts the runs charged to   *)
(* the session.                                                            *)
(*                                                                         *)
(* Beside some operators stands a variant of the same operator with a slip *)
(* in it (...Forgotten, ...Ignored, No...): no specification uses one; they*)
(* serve to see that the properties tell the slip from the code.           *)
(***************************************************************************)
EXTENDS Integers, Sequences

CONSTANTS
  Replica,         \* API processes, each with its own SessionManager
  Session,         \* session ids
  Message,         \* requests to send or stream a message
  Deletion,        \* requests to delete a session
  Creation,        \* requests to create a session
  None,            \* an absent key, owner, agent or record
  RequestTimeout,  \* settings.request_timeout, the limit of one agent run
  LockMargin,      \* the 30 seconds a lock outlives the request timeout
  Slack,           \* ticks one holder may wait on Redis, all commands together
  SessionTtl,      \* settings.session_ttl
  MaxCrashes       \* bound: how many replica crashes a behaviour has

Requests == Message \cup Deletion \cup Creation
AgentId == Message \cup Creation
Record == [hist : Seq(Message), usage : Nat]
Blank == [hist |-> <<>>, usage |-> 0]

ASSUME DisjointRequests ==
  /\ Message \cap Deletion = {}
  /\ Message \cap Creation = {}
  /\ Deletion \cap Creation = {}
ASSUME NoneIsNothing ==
  None \notin Requests \cup Replica \cup Session \cup Record \cup Seq(Message)
ASSUME TimesAreNatural ==
  /\ RequestTimeout \in Nat \ {0}
  /\ SessionTtl \in Nat \ {0}
  /\ LockMargin \in Nat
  /\ Slack \in Nat
  /\ MaxCrashes \in Nat
(* The margin of the lock covers the time its holder spends on Redis.      *)
ASSUME SlackWithinMargin == Slack < LockMargin

VARIABLES
  store,      \* Redis: session -> its record, or None when the key is absent
  ttl,        \* Redis: ticks until the session key expires; 0 is no expiry
  lock,       \* Redis: session -> the request whose token the lock key holds
  lockTtl,    \* Redis: ticks until the lock key expires
  instances,  \* replica -> session -> the cached agent (_instances), or None
  agents,     \* the heap of Agent objects: history and usage of each
  closed,     \* the agents that were closed
  pc,         \* where each request is
  home,       \* the replica that serves it
  target,     \* the session it names
  data,       \* the record a message has read, or is about to write
  agentOf,    \* the agent object it holds
  timer,      \* ticks left to its agent run
  slack,      \* ticks left to its waits on Redis while it holds the lock
  reply,      \* what its client was told
  born,       \* the sessions that were ever created
  crashes     \* crashes so far

redis == <<store, ttl, lock, lockTtl>>
memory == <<instances, agents, closed>>
clocks == <<timer, slack>>
local == <<home, target, data, agentOf>>
ghost == <<born, crashes>>
vars == <<redis, memory, pc, local, clocks, reply, ghost>>

(* The stretch of send_message and stream_message inside the lock.         *)
BeforeRun == {"reread", "attach", "touch"}
Saving == {"saveGet", "saveSet"}
Critical == BeforeRun \cup {"run"} \cup Saving
Waiting == Critical \ {"run"}
PcValues == Critical \cup
  {"idle", "acquire", "release", "pop", "del", "close", "install", "done"}
Outcomes == {"ok", "conflict", "notfound", "timeout", "error", "crashed"}
Replies == Outcomes \cup {None}

ASSUME NoneIsNoOutcome == None \notin Outcomes

(* The lock of a session outlives the longest run by a margin.             *)
LockTimeoutNoMargin == RequestTimeout
LockTimeout == RequestTimeout + LockMargin

Init ==
  /\ born \in SUBSET Session
  /\ store = [s \in Session |-> IF s \in born THEN Blank ELSE None]
  /\ ttl = [s \in Session |-> IF s \in born THEN SessionTtl ELSE 0]
  /\ lock = [s \in Session |-> None]
  /\ lockTtl = [s \in Session |-> 0]
  /\ instances = [p \in Replica |-> [s \in Session |-> None]]
  /\ agents = [a \in AgentId |-> Blank]
  /\ closed = {}
  /\ pc = [r \in Requests |-> "idle"]
  /\ home = [r \in Requests |-> None]
  /\ target = [r \in Requests |-> None]
  /\ data = [r \in Message |-> None]
  /\ agentOf = [r \in Message \cup Deletion |-> None]
  /\ timer = [r \in Message |-> 0]
  /\ slack = [r \in Message |-> 0]
  /\ reply = [r \in Requests |-> None]
  /\ crashes = 0

Goto(r, label) == pc' = [pc EXCEPT ![r] = label]

(* The request leaves with this reply.                                     *)
Finish(r, answer) ==
  /\ Goto(r, "done")
  /\ reply' = [reply EXCEPT ![r] = answer]

(* An exception inside the lock: the finally clause releases it.           *)
Unwind(r, answer) ==
  /\ Goto(r, "release")
  /\ reply' = [reply EXCEPT ![r] = answer]

(* A client learns a session id, a uuid4, from the reply to its creation.  *)
Known(s) == s \in born /\ \A c \in Creation : target[c] = s => reply[c] = "ok"

Route(r, p, s) ==
  /\ pc[r] = "idle"
  /\ home' = [home EXCEPT ![r] = p]
  /\ target' = [target EXCEPT ![r] = s]

-----------------------------------------------------------------------------
(* Messages: send_message and stream_message, sync and SSE alike.          *)

(* The lookups before the lock; the router's own lookup gives the same 404.*)
Arrive(r, p, s) ==
  /\ Known(s)
  /\ Route(r, p, s)
  /\ IF store[s] = None
       THEN Finish(r, "notfound")
       ELSE Goto(r, "acquire") /\ UNCHANGED reply
  /\ UNCHANGED <<redis, memory, data, agentOf, clocks, ghost>>

LockFreeIgnored(s) == TRUE
LockFree(s) == lock[s] = None

TakeLockForever(r) ==
  /\ lock' = [lock EXCEPT ![target[r]] = r]
  /\ UNCHANGED lockTtl

TakeLock(r) ==
  /\ lock' = [lock EXCEPT ![target[r]] = r]
  /\ lockTtl' = [lockTtl EXCEPT ![target[r]] = LockTimeout]

(* SET NX PX.  heard: the reply of Redis reaches the replica.              *)
Acquire(r, heard) ==
  /\ pc[r] = "acquire"
  /\ IF LockFree(target[r])
       THEN /\ TakeLock(r)
            /\ slack' = [slack EXCEPT ![r] = Slack]
            /\ IF heard THEN Goto(r, "reread") /\ UNCHANGED reply
                        ELSE Finish(r, "error")
       ELSE /\ Finish(r, IF heard THEN "conflict" ELSE "error")
            /\ UNCHANGED <<lock, lockTtl, slack>>
  /\ UNCHANGED <<store, ttl, memory, local, timer, ghost>>

Reread(r) ==
  /\ pc[r] = "reread"
  /\ data' = [data EXCEPT ![r] = store[target[r]]]
  /\ IF store[target[r]] = None
       THEN Unwind(r, "notfound")
       ELSE Goto(r, "attach") /\ UNCHANGED reply
  /\ UNCHANGED <<redis, memory, home, target, agentOf, clocks, ghost>>

RefreshForgotten(r, rec) == rec
(* _conversation_history = latest: the agent forgets what it had.          *)
Refresh(r, rec) == [rec EXCEPT !.hist = data[r].hist]

RecoveredNoUsage(r) == [data[r] EXCEPT !.usage = 0]
(* A recovered agent takes history and usage from the stored record.       *)
Recovered(r) == data[r]

CachedOfAny(r) ==
  IF \A s \in Session : instances[home[r]][s] = None
    THEN None
    ELSE CHOOSE a \in AgentId : \E s \in Session : instances[home[r]][s] = a
(* _instances.get(session_id)                                              *)
Cached(r) == instances[home[r]][target[r]]

(* _get_or_recover_instance, then the refresh; no await between them.      *)
Attach(r) ==
  /\ pc[r] = "attach"
  /\ LET cached == Cached(r)
     IN  IF cached # None
           THEN /\ agentOf' = [agentOf EXCEPT ![r] = cached]
                /\ agents' = [agents EXCEPT ![cached] = Refresh(r, @)]
                /\ UNCHANGED instances
           ELSE /\ agentOf' = [agentOf EXCEPT ![r] = r]
                /\ agents' = [agents EXCEPT ![r] = Refresh(r, Recovered(r))]
                /\ instances' = [instances EXCEPT ![home[r]][target[r]] = r]
  /\ Goto(r, "touch")
  /\ UNCHANGED <<redis, closed, home, target, data, clocks, reply, ghost>>

RenewForgotten(s) == UNCHANGED ttl
(* EXPIRE: nothing happens to a key that is gone, and nobody is told.      *)
Renew(s) == ttl' = [ttl EXCEPT ![s] = IF store[s] = None THEN @ ELSE SessionTtl]

Touch(r) ==
  /\ pc[r] = "touch"
  /\ Renew(target[r])
  /\ timer' = [timer EXCEPT ![r] = RequestTimeout]
  /\ Goto(r, "run")
  /\ UNCHANGED <<store, lock, lockTtl, memory, local, slack, reply, ghost>>

(* The run ends in time.  The arguments of save_history are taken here.    *)
RunDone(r) ==
  /\ pc[r] = "run"
  /\ LET after == [hist |-> Append(agents[agentOf[r]].hist, r),
                   usage |-> agents[agentOf[r]].usage + 1]
     IN  /\ agents' = [agents EXCEPT ![agentOf[r]] = after]
         /\ data' = [data EXCEPT ![r] = after]
  /\ Goto(r, "saveGet")
  /\ UNCHANGED <<redis, instances, closed, home, target, agentOf, clocks, reply,
                 ghost>>

(* A run cut off half-way leaves what it did so far on the agent.          *)
LeavePartialRun(r) ==
  LET begun == agents[agentOf[r]]
  IN  \E h \in {begun.hist, Append(begun.hist, r)}, charged \in {0, 1} :
        agents' = [agents EXCEPT ![agentOf[r]] =
                     [hist |-> h, usage |-> begun.usage + charged]]

RunTimeoutForgotten(r) == FALSE

RunTimeout(r) ==
  /\ pc[r] = "run"
  /\ timer[r] = 0
  /\ LeavePartialRun(r)
  /\ Unwind(r, "timeout")
  /\ UNCHANGED <<redis, instances, closed, local, clocks, ghost>>

(* The model fails, the stream's client goes away, the task is cancelled.  *)
RunFails(r) ==
  /\ pc[r] = "run"
  /\ LeavePartialRun(r)
  /\ Unwind(r, "error")
  /\ UNCHANGED <<redis, instances, closed, local, clocks, ghost>>

(* save_history reads the record first; a missing one is a ValueError.     *)
SaveGet(r) ==
  /\ pc[r] = "saveGet"
  /\ IF store[target[r]] = None
       THEN Unwind(r, "error")
       ELSE Goto(r, "saveSet") /\ UNCHANGED reply
  /\ UNCHANGED <<redis, memory, local, clocks, ghost>>

WriteNoExpire(r) ==
  /\ store' = [store EXCEPT ![target[r]] = data[r]]
  /\ ttl' = [ttl EXCEPT ![target[r]] = 0]

(* MULTI SET EXPIRE: writes whether or not the key is still there.         *)
Write(r) ==
  /\ store' = [store EXCEPT ![target[r]] = data[r]]
  /\ ttl' = [ttl EXCEPT ![target[r]] = SessionTtl]

SaveSet(r, heard) ==
  /\ pc[r] = "saveSet"
  /\ Write(r)
  /\ Unwind(r, IF heard THEN "ok" ELSE "error")
  /\ UNCHANGED <<lock, lockTtl, memory, local, clocks, ghost>>

OwnsAnyLock(r) == lock[target[r]] # None
(* The release script deletes the key only if it holds this token; a lock  *)
(* lost in the meantime (LockNotOwnedError) is ignored.                    *)
OwnsLock(r) == lock[target[r]] = r

FreeLock(r) ==
  IF OwnsLock(r)
    THEN /\ lock' = [lock EXCEPT ![target[r]] = None]
         /\ lockTtl' = [lockTtl EXCEPT ![target[r]] = 0]
    ELSE UNCHANGED <<lock, lockTtl>>

(* done: the command runs.  heard: its reply is received.  A connection    *)
(* error raised here replaces the reply, even that of a message saved.     *)
Release(r, done, heard) ==
  /\ pc[r] = "release"
  /\ heard => done
  /\ IF done THEN FreeLock(r) ELSE UNCHANGED <<lock, lockTtl>>
  /\ Finish(r, IF heard THEN reply[r] ELSE "error")
  /\ UNCHANGED <<store, ttl, memory, local, clocks, ghost>>

(* Any other await of a message raises: a connection error, a cancelled    *)
(* task, an agent template that is gone.                                   *)
Fail(r) ==
  /\ \/ pc[r] \in Waiting /\ Unwind(r, "error")
     \/ pc[r] = "acquire" /\ Finish(r, "error")
  /\ UNCHANGED <<redis, memory, local, clocks, ghost>>
-----------------------------------------------------------------------------
(* Deletions: the router's lookup, then delete_session, which takes no lock.*)

DelLookup(d, p, s) ==
  /\ Known(s)
  /\ Route(d, p, s)
  /\ IF store[s] = None
       THEN Finish(d, "notfound")
       ELSE Goto(d, "pop") /\ UNCHANGED reply
  /\ UNCHANGED <<redis, memory, data, agentOf, clocks, ghost>>

UncacheForgotten(d) == UNCHANGED instances
Uncache(d) == instances' = [instances EXCEPT ![home[d]][target[d]] = None]

Pop(d) ==
  /\ pc[d] = "pop"
  /\ agentOf' = [agentOf EXCEPT ![d] = instances[home[d]][target[d]]]
  /\ Uncache(d)
  /\ Goto(d, "del")
  /\ UNCHANGED <<redis, agents, closed, home, target, data, clocks, reply, ghost>>

Del(d, done, heard) ==
  /\ pc[d] = "del"
  /\ heard => done
  /\ IF done
       THEN /\ store' = [store EXCEPT ![target[d]] = None]
            /\ ttl' = [ttl EXCEPT ![target[d]] = 0]
       ELSE UNCHANGED <<store, ttl>>
  /\ IF heard
       THEN /\ Goto(d, "close")
            /\ reply' = [reply EXCEPT ![d] =
                           IF store[target[d]] = None THEN "notfound" ELSE "ok"]
       ELSE Finish(d, "error")
  /\ UNCHANGED <<lock, lockTtl, memory, local, clocks, ghost>>

Close(d) ==
  /\ pc[d] = "close"
  /\ closed' = closed \cup ({agentOf[d]} \ {None})
  /\ Goto(d, "done")
  /\ UNCHANGED <<redis, instances, agents, local, clocks, reply, ghost>>
-----------------------------------------------------------------------------
(* Creations: the record is stored before the agent is built.              *)

CreateStore(c, p, s) ==
  /\ s \notin born
  /\ Route(c, p, s)
  /\ born' = born \cup {s}
  /\ store' = [store EXCEPT ![s] = Blank]
  /\ ttl' = [ttl EXCEPT ![s] = SessionTtl]
  /\ Goto(c, "install")
  /\ UNCHANGED <<lock, lockTtl, memory, data, agentOf, clocks, reply, crashes>>

Install(c) ==
  /\ pc[c] = "install"
  /\ instances' = [instances EXCEPT ![home[c]][target[c]] = c]
  /\ Finish(c, "ok")
  /\ UNCHANGED <<redis, agents, closed, local, clocks, ghost>>

(* The template went away during the await: the record stays in Redis.     *)
InstallFails(c) ==
  /\ pc[c] = "install"
  /\ Finish(c, "error")
  /\ UNCHANGED <<redis, memory, local, clocks, ghost>>
-----------------------------------------------------------------------------
(* Time and crashes.                                                       *)

CountDownPastZero(n) == n - 1
CountDown(n) == IF n = 0 THEN 0 ELSE n - 1

(* Time passes for every key and every wait.  asyncio stops a run at its   *)
(* timeout, and Redis answers a lock holder within its slack.              *)
Tick ==
  /\ \A r \in Message : /\ pc[r] = "run" => timer[r] > 0
                        /\ pc[r] \in Waiting => slack[r] > 0
  /\ timer' = [r \in Message |->
                 IF pc[r] = "run" THEN CountDown(timer[r]) ELSE timer[r]]
  /\ slack' = [r \in Message |->
                 IF pc[r] \in Waiting THEN CountDown(slack[r]) ELSE slack[r]]
  /\ store' = [s \in Session |-> IF ttl[s] = 1 THEN None ELSE store[s]]
  /\ ttl' = [s \in Session |-> CountDown(ttl[s])]
  /\ lock' = [s \in Session |-> IF lockTtl[s] = 1 THEN None ELSE lock[s]]
  /\ lockTtl' = [s \in Session |-> CountDown(lockTtl[s])]
  /\ UNCHANGED <<memory, pc, local, reply, ghost>>

(* A replica dies with its coroutines and its cache and comes back empty.  *)
Lost(p) == {r \in Requests : home[r] = p /\ pc[r] \notin {"idle", "done"}}

Crash(p) ==
  /\ crashes < MaxCrashes
  /\ crashes' = crashes + 1
  /\ instances' = [instances EXCEPT ![p] = [s \in Session |-> None]]
  /\ pc' = [r \in Requests |-> IF r \in Lost(p) THEN "done" ELSE pc[r]]
  /\ reply' = [r \in Requests |-> IF r \in Lost(p) THEN "crashed" ELSE reply[r]]
  /\ UNCHANGED <<redis, agents, closed, local, clocks, born>>
-----------------------------------------------------------------------------
MessageStep(r) ==
  \/ \E p \in Replica, s \in Session : Arrive(r, p, s)
  \/ \E heard \in BOOLEAN : Acquire(r, heard)
  \/ Reread(r)
  \/ Attach(r)
  \/ Touch(r)
  \/ RunDone(r)
  \/ RunTimeout(r)
  \/ RunFails(r)
  \/ SaveGet(r)
  \/ \E heard \in BOOLEAN : SaveSet(r, heard)
  \/ \E done, heard \in BOOLEAN : Release(r, done, heard)
  \/ Fail(r)

DeletionStep(d) ==
  \/ \E p \in Replica, s \in Session : DelLookup(d, p, s)
  \/ Pop(d)
  \/ \E done, heard \in BOOLEAN : Del(d, done, heard)
  \/ Close(d)

CreationStep(c) ==
  \/ \E p \in Replica, s \in Session : CreateStore(c, p, s)
  \/ Install(c)
  \/ InstallFails(c)

Next ==
  \/ \E r \in Message : MessageStep(r)
  \/ \E d \in Deletion : DeletionStep(d)
  \/ \E c \in Creation : CreationStep(c)
  \/ Tick
  \/ \E p \in Replica : Crash(p)

Spec == Init /\ [][Next]_vars

(* The event loop keeps running a request that is not waiting, Redis keeps *)
(* answering, time keeps passing.  A run need not end by itself, and       *)
(* nothing has to fail or arrive.                                          *)
Answered(r) ==
  \/ \E heard \in BOOLEAN : Acquire(r, heard) \/ SaveSet(r, heard)
  \/ Reread(r) \/ Attach(r) \/ Touch(r) \/ RunTimeout(r) \/ SaveGet(r)
  \/ \E done, heard \in BOOLEAN : Release(r, done, heard)

FairSpec ==
  /\ Spec
  /\ WF_vars(Tick)
  /\ \A r \in Message : WF_vars(Answered(r))
=============================================================================
