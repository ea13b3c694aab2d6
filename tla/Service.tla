------------------------------- MODULE Service -------------------------------
(***************************************************************************)
(* SessionManager as the request handlers of one API process meet it: the  *)
(* coroutine a handler waits for, what it raises, the lock it holds, the   *)
(* agents it builds, caches and closes.  Coarser than SessionManager.tla   *)
(* (no clock, no histories, one process), and finer where the caller is    *)
(* concerned: a stream is suspended at each chunk, and may be left there.  *)
(***************************************************************************)
EXTENDS Integers, Sequences, FiniteSets

CONSTANTS
  Request,    \* requests, each used once
  Shared,     \* a session that earlier clients know
  None,       \* no holder, no agent, no outcome
  MaxChunks   \* bound: how many chunks one run yields

(* A request that creates a session, creates the one named after it.       *)
Session == Request \cup {Shared}

ASSUME ServiceAssumption ==
  /\ Shared \notin Request
  /\ None \notin Request \cup {Shared}
  /\ MaxChunks \in Nat

VARIABLES
  target,     \* the session a request is about
  call,       \* where the coroutine of the manager is that serves it
  outcome,    \* how that coroutine ended: "ok", the exception, or None
  produced,   \* how many chunks its run has yielded
  lock,       \* session -> the request whose token is in Redis, or None
  stored,     \* the sessions Redis has
  saved,      \* the messages whose history was saved
  instances,  \* session -> the agent in the cache, or None
  built,      \* the agents ever built, each named after its request
  closed,     \* those that were closed
  popped,     \* deletion -> the agent it took out of the cache, or None
  offered     \* whether the registry has a template to build agents from

calling == <<target, call, outcome, produced>>
redis == <<lock, stored, saved>>
memory == <<instances, built, closed, popped>>
serviceVars == <<calling, redis, memory, offered>>

Calls == {"none", "lookup", "held", "run", "yielded", "saving", "unwind",
          "orphan", "pop", "del", "close", "store", "install", "over"}
Outcomes == {"ok", "notfound", "conflict", "timeout", "error"}

ServiceInit ==
  /\ target = [r \in Request |-> Shared]
  /\ call = [r \in Request |-> "none"]
  /\ outcome = [r \in Request |-> None]
  /\ produced = [r \in Request |-> 0]
  /\ lock = [s \in Session |-> None]
  /\ stored \in SUBSET {Shared}
  /\ saved = {}
  /\ instances = [s \in Session |-> None]
  /\ built = {}
  /\ closed = {}
  /\ popped = [r \in Request |-> None]

Step(r, label) == call' = [call EXCEPT ![r] = label]

(* The coroutine goes on to this label with this outcome under way.        *)
End(r, label, how) ==
  /\ Step(r, label)
  /\ outcome' = [outcome EXCEPT ![r] = how]

-----------------------------------------------------------------------------
(* Messages.                                                               *)

Own(r) == [lock EXCEPT ![target[r]] = r]
Freed(r) == IF lock[target[r]] = r THEN [lock EXCEPT ![target[r]] = None] ELSE lock

(* Up to the lock.  A Redis error may hit before or after SET NX took it.  *)
Enter(r) ==
  /\ call[r] = "lookup"
  /\ \/ /\ target[r] \notin stored
        /\ End(r, "over", "notfound")
        /\ UNCHANGED lock
     \/ /\ target[r] \in stored
        /\ IF lock[target[r]] = None
             THEN lock' = Own(r) /\ Step(r, "held") /\ UNCHANGED outcome
             ELSE End(r, "over", "conflict") /\ UNCHANGED lock
     \/ /\ End(r, "over", "error")
        /\ \/ UNCHANGED lock
           \/ target[r] \in stored /\ lock[target[r]] = None /\ lock' = Own(r)
  /\ UNCHANGED <<target, produced, stored, saved, memory, offered>>

Build(r, s) ==
  /\ offered
  /\ instances' = [instances EXCEPT ![s] = r]
  /\ built' = built \cup {r}

(* The second read and the agent: cached, recovered, or impossible.        *)
Attach(r) ==
  /\ call[r] = "held"
  /\ \/ /\ target[r] \notin stored
        /\ End(r, "unwind", "notfound")
        /\ UNCHANGED <<instances, built>>
     \/ /\ target[r] \in stored
        /\ IF instances[target[r]] = None THEN Build(r, target[r])
                                          ELSE UNCHANGED <<instances, built>>
        /\ Step(r, "run")
        /\ UNCHANGED outcome
     \/ /\ End(r, "unwind", "error")
        /\ UNCHANGED <<instances, built>>
  /\ UNCHANGED <<target, produced, redis, closed, popped, offered>>

Yield(r) ==
  /\ call[r] = "run"
  /\ produced[r] < MaxChunks
  /\ produced' = [produced EXCEPT ![r] = @ + 1]
  /\ Step(r, "yielded")
  /\ UNCHANGED <<target, outcome, redis, memory, offered>>

(* The run is over and save_history has read the session, or one of them   *)
(* fails; save_history does when the session is gone.                      *)
RunEnds(r) ==
  /\ call[r] = "run"
  /\ \/ target[r] \in stored /\ Step(r, "saving") /\ UNCHANGED outcome
     \/ End(r, "unwind", "error")
  /\ UNCHANGED <<target, produced, redis, memory, offered>>

(* It writes the session back, also one deleted since.  No timer covers    *)
(* this; a Redis error may hit before or after the SET.                    *)
SaveWrite(r) ==
  /\ call[r] = "saving"
  /\ \/ /\ stored' = stored \cup {target[r]}
        /\ saved' = saved \cup {r}
        /\ \E how \in {"ok", "error"} : End(r, "unwind", how)
     \/ End(r, "unwind", "error") /\ UNCHANGED <<stored, saved>>
  /\ UNCHANGED <<target, produced, lock, memory, offered>>

(* asyncio's timer cancels the task that waits for the agent.              *)
RunTimesOut(r) ==
  /\ call[r] = "run"
  /\ End(r, "unwind", "timeout")
  /\ UNCHANGED <<target, produced, redis, memory, offered>>

ReleaseQuietly(r) ==
  /\ call[r] = "unwind"
  /\ lock' \in {lock, Freed(r)}
  /\ Step(r, "over")
  /\ UNCHANGED <<target, outcome, produced, stored, saved, memory, offered>>

(* The finally clause.  A Redis error raised here replaces what was to be  *)
(* returned or raised, whether or not the lock was released.               *)
Release(r) ==
  /\ call[r] = "unwind"
  /\ \/ lock' = Freed(r) /\ Step(r, "over") /\ UNCHANGED outcome
     \/ lock' \in {lock, Freed(r)} /\ End(r, "over", "error")
  /\ UNCHANGED <<target, produced, stored, saved, memory, offered>>

(* The task the coroutine runs in is cancelled, or drops it at a yield.    *)
Left(r) ==
  IF call[r] \in {"held", "run", "yielded", "saving", "unwind"} THEN "orphan" ELSE "over"

(* What is left of it is thrown out later: its finally clause tries to     *)
(* release the lock, and nobody hears how that went.                       *)
Finalize(r) ==
  /\ call[r] = "orphan"
  /\ lock' \in {lock, Freed(r)}
  /\ End(r, "over", "error")
  /\ UNCHANGED <<target, produced, stored, saved, memory, offered>>
-----------------------------------------------------------------------------
(* Deletions and creations.                                                *)

PopInstance(d) ==
  /\ call[d] = "pop"
  /\ popped' = [popped EXCEPT ![d] = instances[target[d]]]
  /\ instances' = [instances EXCEPT ![target[d]] = None]
  /\ Step(d, "del")
  /\ UNCHANGED <<target, outcome, produced, redis, built, closed, offered>>

DeleteKey(d) ==
  /\ call[d] = "del"
  /\ \/ /\ stored' = stored \ {target[d]}
        /\ End(d, "close", IF target[d] \in stored THEN "ok" ELSE "notfound")
     \/ stored' \in {stored, stored \ {target[d]}} /\ End(d, "over", "error")
  /\ UNCHANGED <<target, produced, lock, saved, memory, offered>>

ToCloseIfDeleted(d) == IF outcome[d] = "ok" THEN {popped[d]} \ {None} ELSE {}
ToCloseUnchecked(d) == {popped[d]}
ToClose(d) == {popped[d]} \ {None}

(* An exception of Agent.close is logged and swallowed.                    *)
CloseInstance(d) ==
  /\ call[d] = "close"
  /\ closed' = closed \cup ToClose(d)
  /\ Step(d, "over")
  /\ UNCHANGED <<target, outcome, produced, redis, instances, built, popped, offered>>

StoreRecord(c) ==
  /\ call[c] = "store"
  /\ \/ ~offered /\ End(c, "over", "notfound") /\ UNCHANGED stored
     \/ /\ offered
        /\ stored' = stored \cup {target[c]}
        /\ Step(c, "install")
        /\ UNCHANGED outcome
     \/ /\ offered
        /\ stored' \in {stored, stored \cup {target[c]}}
        /\ End(c, "over", "error")
  /\ UNCHANGED <<target, produced, lock, saved, memory, offered>>

InstallInstance(c) ==
  /\ call[c] = "install"
  /\ \/ Build(c, target[c]) /\ End(c, "over", "ok")
     \/ ~offered /\ End(c, "over", "error") /\ UNCHANGED <<instances, built>>
  /\ UNCHANGED <<target, produced, redis, closed, popped, offered>>
-----------------------------------------------------------------------------
(* Redis: a session expires; a lock does so only under a coroutine that is *)
(* on its way out, over or left (LocksExpireWhenLeft of LockProofs).       *)

SessionExpires(s) ==
  /\ s \in stored
  /\ stored' = stored \ {s}
  /\ UNCHANGED <<calling, lock, saved, memory, offered>>

LockExpires(s) ==
  /\ lock[s] # None
  /\ call[lock[s]] \in {"unwind", "over", "orphan"}
  /\ lock' = [lock EXCEPT ![s] = None]
  /\ UNCHANGED <<calling, stored, saved, memory, offered>>
=============================================================================
