------------------------------- MODULE Lifecycle -------------------------------
(***************************************************************************)
(* One API process from start to stop: the lifespan of main.py around the  *)
(* requests of Gateway, and the task of the hot reloader beside them.  On  *)
(* the signal to stop, uvicorn takes no more requests, waits for those it  *)
(* has (event streams are told to end), and only then lets the lifespan    *)
(* shut down.                                                              *)
(***************************************************************************)
EXTENDS Gateway

VARIABLES
  phase,      \* of the lifespan
  watcher,    \* the task of the hot reloader, and the thread it starts
  closing     \* what is left of the list that close_all goes through

life == <<phase, watcher, closing>>
allVars == <<vars, life>>

Phases == {"down", "failed", "serving", "draining", "closing", "stopping",
           "disconnecting", "stopped"}
Watchers == {"none", "watching", "thread"}

Init ==
  /\ GatewayInit
  /\ offered = FALSE
  /\ phase = "down"
  /\ watcher = "none"
  /\ closing = {}

(* The registry is scanned, maybe found empty, and then watched.           *)
StartUp ==
  /\ phase = "down"
  /\ phase' = "serving"
  /\ offered' \in BOOLEAN
  /\ watcher' = "watching"
  /\ UNCHANGED <<calling, redis, memory, kind, pc, status, code, events, active,
                 recorded, closing>>

(* A configuration that does not load ends the process before it serves.   *)
StartUpFails ==
  /\ phase = "down"
  /\ phase' = "failed"
  /\ UNCHANGED <<vars, watcher, closing>>

(* A thread swaps the registry for what it has scanned.                    *)
HotReload ==
  /\ watcher \in {"watching", "thread"}
  /\ Reload
  /\ watcher' = IF watcher = "thread" THEN "none" ELSE watcher
  /\ UNCHANGED <<phase, closing>>

SignalStop ==
  /\ phase = "serving"
  /\ phase' = "draining"
  /\ UNCHANGED <<vars, watcher, closing>>

(* close_all, over a copy of the cache.                                    *)
CloseAll ==
  /\ phase = "draining"
  /\ \A r \in Request : pc[r] \in {"idle", "done"}
  /\ phase' = "closing"
  /\ closing' = {instances[s] : s \in Session} \ {None}
  /\ UNCHANGED <<vars, watcher>>

(* An exception of Agent.close is swallowed, and the next one is closed.   *)
CloseOne(a) ==
  /\ phase = "closing"
  /\ a \in closing
  /\ closed' = closed \cup {a}
  /\ closing' = closing \ {a}
  /\ UNCHANGED <<calling, redis, instances, built, popped, offered, kind, pc,
                 status, code, events, active, recorded, phase, watcher>>

ClearInstances ==
  /\ phase = "closing"
  /\ closing = {}
  /\ instances' = [s \in Session |-> None]
  /\ phase' = "stopping"
  /\ UNCHANGED <<calling, redis, built, closed, popped, offered, kind, pc,
                 status, code, events, active, recorded, watcher, closing>>

(* stop cancels the task, if it has not ended long since (awatch raises    *)
(* when the directory is gone); a thread at work by then goes on by itself.*)
StopWatcher ==
  /\ phase = "stopping"
  /\ watcher' \in {"none", "thread"}
  /\ phase' = "disconnecting"
  /\ UNCHANGED <<vars, closing>>

Disconnect ==
  /\ phase = "disconnecting"
  /\ phase' = "stopped"
  /\ UNCHANGED <<vars, watcher, closing>>
-----------------------------------------------------------------------------
ShutDown ==
  \/ CloseAll
  \/ \E a \in Request : CloseOne(a)
  \/ ClearInstances \/ StopWatcher \/ Disconnect

RequestEvent ==
  \/ /\ phase = "serving"
     /\ \E r \in Request, k \in Kinds, s \in Session : Arrive(r, k, s)
  \/ \E r \in Request : RequestStep(r)
  \/ Expiry

Next ==
  \/ RequestEvent /\ UNCHANGED life
  \/ StartUp \/ StartUpFails
  \/ HotReload
  \/ SignalStop
  \/ ShutDown

Spec == Init /\ [][Next]_allVars

(* The event loop goes on with something as long as anything can go on:    *)
(* Redis answers, a timer that was set runs out, a client reads its stream *)
(* or leaves.  Agents may never answer, and nothing has to arrive, fail or *)
(* expire.                                                                 *)
LoopStep ==
  \/ (\E r \in Request : Progress(r)) /\ UNCHANGED life
  \/ ShutDown

FairSpec == Spec /\ WF_allVars(LoopStep)
-----------------------------------------------------------------------------
LifecycleType ==
  /\ GatewayType
  /\ phase \in Phases
  /\ watcher \in Watchers
  /\ closing \in SUBSET Request

(* Every variable has its type, and an agent that is cached, popped or     *)
(* closed was built (session_manager.py, routes.py, main.py).              *)
TypeOK ==
  /\ LifecycleType
  /\ {instances[s] : s \in Session} \cup {popped[r] : r \in Request} \cup closed
       \subseteq built \cup {None}

(* When the process has stopped, nobody waits for an answer, the watcher   *)
(* runs no more, and every agent it ever built was closed: those left in   *)
(* the cache by close_all, those taken out of it by their deletion.  The   *)
(* exception is a deletion whose DEL failed in Redis: its agent is out of  *)
(* the cache and never closed.                                             *)
CleanStop ==
  phase = "stopped" =>
    /\ \A r \in Request : pc[r] \in {"idle", "done"}
    /\ watcher # "watching"
    /\ built \subseteq closed \cup {popped[d] : d \in {q \in Request : status[q] = 500}}

(* In the end every request that arrived is over and no coroutine is left  *)
(* behind, also when an agent never answers; and a process told to stop    *)
(* has stopped, whatever it was doing.                                     *)
EverythingEnds ==
  <>[](/\ \A r \in Request : /\ pc[r] \in {"idle", "done"}
                             /\ call[r] \in {"none", "over"}
       /\ phase \in {"down", "failed", "serving", "stopped"})
=============================================================================
