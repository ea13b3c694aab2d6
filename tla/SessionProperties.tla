-------------------------- MODULE SessionProperties --------------------------
(***************************************************************************)
(* What SessionManager must guarantee: one holder per session, nothing     *)
(* acknowledged is lost, nothing refused is stored, every key expires,     *)
(* every request is answered.                                              *)
(***************************************************************************)
EXTENDS SessionManager

RedisType ==
  /\ store \in [Session -> Record \cup {None}]
  /\ ttl \in [Session -> Nat]
  /\ lock \in [Session -> Message \cup {None}]
  /\ lockTtl \in [Session -> Nat]

MemoryType ==
  /\ instances \in [Replica -> [Session -> AgentId \cup {None}]]
  /\ agents \in [AgentId -> Record]
  /\ closed \in SUBSET AgentId

ControlType ==
  /\ pc \in [Requests -> PcValues]
  /\ reply \in [Requests -> Replies]
  /\ born \in SUBSET Session
  /\ crashes \in Nat

LocalType ==
  /\ home \in [Requests -> Replica \cup {None}]
  /\ target \in [Requests -> Session \cup {None}]
  /\ data \in [Message -> Record \cup {None}]
  /\ agentOf \in [Message \cup Deletion -> AgentId \cup {None}]
  /\ timer \in [Message -> Nat]
  /\ slack \in [Message -> Nat]

(* What a coroutine has read by the time it gets to a step.                *)
BoundWhenUsed ==
  /\ \A r \in Requests :
       pc[r] # "idle" => home[r] \in Replica /\ target[r] \in Session
  /\ \A r \in Message :
       /\ pc[r] \in Critical \ {"reread"} => data[r] \in Record
       /\ pc[r] \in {"touch", "run"} => agentOf[r] \in AgentId

(* Every variable has its type, and a local is bound before it is used     *)
(* (session_manager.py and session_store.py).                              *)
TypeOK ==
  /\ RedisType
  /\ MemoryType
  /\ ControlType
  /\ LocalType
  /\ BoundWhenUsed

(* A message between acquire and release holds the lock of its session for *)
(* the whole stretch, whatever expired, crashed or was released late: so   *)
(* two messages are never inside on one session.                           *)
HolderKeepsLock ==
  \A r \in Message : pc[r] \in Critical => lock[target[r]] = r

(* What keeps it: the lock outlives whatever its holder has still to do.   *)
Remaining(r) ==
  slack[r] + (IF pc[r] \in BeforeRun THEN RequestTimeout
              ELSE IF pc[r] = "run" THEN timer[r] ELSE 0)

LockOutlivesHolder ==
  \A r \in Message :
    pc[r] \in Critical => /\ lock[target[r]] = r
                         /\ lockTtl[target[r]] > Remaining(r)

(* A lock leaves its holder only by the holder's own release or by its TTL:*)
(* a late release never frees the lock somebody else holds by then         *)
(* (LockNotOwnedError in the finally clauses).                             *)
OnlyOwnerReleases ==
  [][\A s \in Session :
       lock[s] # None /\ lock'[s] # lock[s] =>
         \/ Tick /\ lockTtl[s] = 1
         \/ pc[lock[s]] = "release" /\ pc'[lock[s]] = "done"]_vars

(* A stored history changes only by gaining one message at its end: no     *)
(* save, from whichever replica and whichever cached agent, drops what     *)
(* another one stored.                                                     *)
NoLostUpdate ==
  [][\A s \in Session :
       store[s] # None /\ store'[s] # None =>
         \/ store'[s].hist = store[s].hist
         \/ \E m \in Message : store'[s].hist = Append(store[s].hist, m)]_vars

Holds(h, m) == \E i \in DOMAIN h : h[i] = m

(* A message answered with success is in the history for as long as the    *)
(* session exists.                                                         *)
AckedIsStored ==
  \A r \in Message :
    reply[r] = "ok" /\ store[target[r]] # None => Holds(store[target[r]].hist, r)

(* A message refused (404, 409) or timed out (504) is in no history, not   *)
(* even through the half-finished run it left on a cached agent.           *)
RejectedNotStored ==
  \A r \in Message :
    reply[r] \in {"conflict", "notfound", "timeout"} =>
      \A s \in Session : store[s] # None => ~Holds(store[s].hist, r)

(* Sessions share processes, but a history has only what was sent to its   *)
(* own session, each message once: no agent brings along what it heard     *)
(* elsewhere, before a recovery, or in a run that was cut off.             *)
OwnHistory(s, h) ==
  \A i \in DOMAIN h :
    /\ target[h[i]] = s
    /\ \A j \in DOMAIN h : h[j] = h[i] => j = i

HistoriesAreOwn ==
  \A s \in Session : store[s] # None => OwnHistory(s, store[s].hist)

(* No key stays in Redis for ever: a session always has a TTL, also after  *)
(* the plain SET of save_history, and so has a lock whose holder died.     *)
EveryKeyExpires ==
  \A s \in Session : /\ store[s] # None => ttl[s] > 0
                     /\ lock[s] # None => lockTtl[s] > 0

(* While time passes (a step that moves no request) the session of a run   *)
(* does not expire between touch and save (session_manager.py:62 "Refresh  *)
(* TTL before potentially long LLM call to prevent mid-request expiry").   *)
NoExpiryDuringRun ==
  [][\A r \in Message :
       UNCHANGED pc /\ pc[r] \in {"run"} \cup Saving /\ store[target[r]] # None
         => store'[target[r]] # None]_vars

(* The stored usage covers every run whose message is stored: the cost     *)
(* reported for a session is at least what its history cost ("Cumulative   *)
(* token usage for a session").                                            *)
UsageCoversHistory ==
  \A s \in Session :
    store[s] # None => store[s].usage >= Len(store[s].hist)

(* A closed agent is never in a cache, so no later message runs on it:     *)
(* delete_session takes it out before it closes it.                        *)
NoClosedAgentCached ==
  \A p \in Replica, s \in Session :
    instances[p][s] \notin closed

(* A session whose deletion was confirmed (204) does not come back.        *)
DeletedStaysDeleted ==
  \A d \in Deletion : reply[d] = "ok" => store[target[d]] = None

(* Every message that arrives is answered (or dies with its replica).      *)
EveryMessageAnswered ==
  \A r \in Message : (pc[r] # "idle") ~> (pc[r] = "done")

(* No lock is held for ever, also when its holder died or could not        *)
(* release it.                                                             *)
LocksAreFreed ==
  \A s \in Session : (lock[s] # None) ~> (lock[s] = None)

Promise == INSTANCE Conversation WITH
  conv <- [s \in Session |-> IF store[s] = None THEN None ELSE store[s].hist],
  opened <- born

(* Without deletions, and while a session outlives one request, all the    *)
(* replicas together implement one conversation per session.               *)
ImplementsConversation == Promise!Spec
=============================================================================
