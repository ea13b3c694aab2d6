--------------------------- MODULE LifecycleProofs ---------------------------
(***************************************************************************)
(* Theorems about one process from start to stop, for any set of requests: *)
(* types, the refinement of Exchange, and that no agent is left open.      *)
(***************************************************************************)
EXTENDS Lifecycle, GatewayProofs, FiniteSetTheorems, SequenceTheorems

(* What is cached, popped, closed or about to be closed, was built.        *)
BuiltFirst ==
  /\ \A s \in Session : instances[s] \in built \cup {None}
  /\ \A d \in Request : popped[d] \in built \cup {None}
  /\ closed \subseteq built
  /\ closing \subseteq built

(* A request that installs an agent does so for a session of its own, which*)
(* has none until then.                                                    *)
Owns(q) ==
  /\ target[q] \in {Shared, q}
  /\ pc[q] # "idle" /\ kind[q] = "create" => target[q] = q
  /\ call[q] \in {"store", "install"} => target[q] = q
  /\ call[q] \in {"none", "store", "install"} => instances[q] = None

(* A deletion that still has to close the agent it popped, or will fail.   *)
Custody(d) ==
  \/ pc[d] = "handler" /\ call[d] \in {"del", "close"}
  \/ pc[d] = "handler" /\ call[d] = "over" /\ outcome[d] = "error"
  \/ pc[d] = "raised"
  \/ pc[d] = "done" /\ status[d] = 500

Cached(a) == \E s \in Session : instances[s] = a

(* Every agent is closed, cached, or in the custody of a deletion.         *)
Accounted ==
  \A a \in built : a \in closed \/ Cached(a) \/ \E d \in Request : popped[d] = a /\ Custody(d)

(* The shutdown begins when no request is under way, and empties the cache.*)
AfterDrain == {"closing", "stopping", "disconnecting", "stopped"}
Drained ==
  /\ phase \in AfterDrain => \A r \in Request : pc[r] \in {"idle", "done"}
  /\ phase = "closing" => \A s \in Session : instances[s] \in closing \cup closed \cup {None}
  /\ phase \in AfterDrain \ {"closing"} => \A s \in Session : instances[s] = None
  /\ phase \in {"disconnecting", "stopped"} => watcher # "watching"

AgentsInv == BuiltFirst /\ (\A q \in Request : Owns(q)) /\ Accounted /\ Drained

Inv == LifecycleType /\ SoundInv /\ AgentsInv
-----------------------------------------------------------------------------
(* What a step of a request owes to the agents when it leaves them alone.  *)
Careful(r) ==
  /\ UNCHANGED memory
  /\ Owns(r)'
  /\ Custody(r) => Custody(r)'

(* Such a step loses none.                                                 *)
LEMMA CarefulKeeps ==
  ASSUME GatewayType, AgentsInv, NEW r \in Request, Only(r), Careful(r), UNCHANGED closing
  PROVE  BuiltFirst' /\ (\A q \in Request : Owns(q)') /\ Accounted'
  <1>1. BuiltFirst'
    BY DEF AgentsInv, BuiltFirst, Careful, memory
  <1>2. ASSUME NEW q \in Request
        PROVE  Owns(q)' /\ (Custody(q) => Custody(q)')
    <2>1. CASE q = r
      BY <2>1 DEF Careful
    <2>2. CASE q # r
      BY <2>2 DEF AgentsInv, Owns, Custody, Only, Careful, memory
    <2> QED
      BY <2>1, <2>2
  <1>3. Accounted'
    BY <1>2 DEF AgentsInv, Accounted, Cached, Careful, memory
  <1> QED
    BY <1>1, <1>2, <1>3

(* Handlers touch no agent, and a deletion that failed stays in sight.     *)
LEMMA HandlingCareful ==
  ASSUME GatewayType, SoundInv, NEW r \in Request, Owns(r), Handling(r)
  PROVE  Careful(r)
  <1>0. /\ call \in [Request -> Calls] /\ pc \in [Request -> PcValues]
        /\ outcome \in [Request -> Outcomes \cup {None}] /\ status \in [Request -> Nat]
        /\ Together(r)
    BY DEF GatewayType, SoundInv, Sound
  <1> USE DEF Careful, Owns, Custody, Together, Quiet, calling, memory, serviceVars,
        Step, End, Goto, Await, Reply, Raise, Rest, A2A
  <1>1. CASE TurnAway(r)
    BY <1>1, <1>0 DEF TurnAway
  <1>2. CASE Probe(r)
    BY <1>2, <1>0 DEF Probe
  <1>3. CASE HandleRest(r)
    BY <1>3, <1>0 DEF HandleRest
  <1>4. CASE LookUp(r)
    BY <1>4, <1>0 DEF LookUp
  <1>5. CASE HandleA2A(r)
    BY <1>5, <1>0 DEF HandleA2A
  <1>6. CASE Resolve(r)
    BY <1>6, <1>0 DEF Resolve
  <1>7. CASE Answer(r)
    BY <1>7, <1>0, StatusIsNumber DEF Answer
  <1>8. CASE AnswerFirstChunk(r)
    BY <1>8, <1>0 DEF AnswerFirstChunk
  <1>9. CASE Respond(r)
    BY <1>9, <1>0 DEF Respond
  <1>10. CASE Escape(r)
    BY <1>10, <1>0 DEF Escape
  <1>11. CASE SendWorking(r)
    BY <1>11, <1>0 DEF SendWorking
  <1>12. CASE SendChunk(r)
    BY <1>12, <1>0 DEF SendChunk
  <1>13. CASE EndBody(r)
    BY <1>13, <1>0 DEF EndBody
  <1> QED
    BY <1>1, <1>2, <1>3, <1>4, <1>5, <1>6, <1>7, <1>8, <1>9, <1>10, <1>11, <1>12, <1>13
    DEF Handling

(* Nor do these steps of the manager.                                      *)
LEMMA ServingCareful ==
  ASSUME GatewayType, SoundInv, NEW r \in Request, Owns(r), Outside,
         \/ Enter(r) \/ TimeOut(r) \/ Release(r) \/ Finalize(r) \/ DeleteKey(r)
         \/ StoreRecord(r) \/ Yield(r) \/ RunEnds(r) \/ SaveWrite(r)
  PROVE  Careful(r)
  <1>0. /\ call \in [Request -> Calls] /\ outcome \in [Request -> Outcomes \cup {None}]
        /\ Together(r)
    BY DEF GatewayType, SoundInv, Sound
  <1> USE DEF Careful, Owns, Custody, Together, Outside, calling, memory, Step, End
  <1>1. CASE Enter(r)
    BY <1>1, <1>0 DEF Enter
  <1>2. CASE TimeOut(r)
    BY <1>2, <1>0 DEF TimeOut, RunTimesOut
  <1>3. CASE Release(r)
    BY <1>3, <1>0 DEF Release
  <1>4. CASE Finalize(r)
    BY <1>4, <1>0 DEF Finalize
  <1>5. CASE DeleteKey(r)
    BY <1>5, <1>0 DEF DeleteKey
  <1>6. CASE StoreRecord(r)
    BY <1>6, <1>0 DEF StoreRecord
  <1>7. CASE Yield(r)
    BY <1>7, <1>0 DEF Yield
  <1>8. CASE RunEnds(r)
    BY <1>8, <1>0 DEF RunEnds
  <1>9. CASE SaveWrite(r)
    BY <1>9, <1>0 DEF SaveWrite
  <1> QED
    BY <1>1, <1>2, <1>3, <1>4, <1>5, <1>6, <1>7, <1>8, <1>9

(* Nor who leaves a stream.                                                *)
LEMMA LeavingCareful ==
  ASSUME GatewayType, SoundInv, NEW r \in Request, Owns(r), TimesOutElsewhere(r) \/ HangUp(r)
  PROVE  Careful(r)
  <1>0. /\ call \in [Request -> Calls] /\ pc \in [Request -> PcValues] /\ Together(r)
    BY DEF GatewayType, SoundInv, Sound
  <1> QED
    BY <1>0
    DEF TimesOutElsewhere, HangUp, Left, Careful, Owns, Custody, Together, memory, Step, Goto

(* Nor who comes in.                                                       *)
LEMMA ArriveCareful ==
  ASSUME GatewayType, SoundInv, NEW r \in Request, Owns(r),
         NEW k \in Kinds, NEW s \in Session, Arrive(r, k, s)
  PROVE  Careful(r)
  <1>0. /\ call \in [Request -> Calls] /\ pc \in [Request -> PcValues] /\ Together(r)
        /\ target \in [Request -> Session] /\ kind \in [Request -> Kinds \cup {None}]
    BY DEF GatewayType, SoundInv, Sound
  <1> QED
    BY <1>0 DEF Arrive, Known, Careful, Owns, Custody, Together, memory, Goto, A2A
-----------------------------------------------------------------------------
(* A message that finds no agent builds one and caches it.                 *)
LEMMA AttachAgents ==
  ASSUME GatewayType, SoundInv, AgentsInv, NEW r \in Request, Attach(r), Outside, UNCHANGED closing
  PROVE  BuiltFirst' /\ (\A q \in Request : Owns(q)') /\ Accounted'
  <1>0. /\ call \in [Request -> Calls] /\ outcome \in [Request -> Outcomes \cup {None}]
        /\ instances \in [Session -> Request \cup {None}]
        /\ built \in SUBSET Request /\ target[r] \in Session
        /\ Together(r) /\ target[r] \in {Shared, r} /\ None \notin Request /\ Shared \notin Request
        /\ Request \subseteq Session
    BY ServiceAssumption DEF GatewayType, SoundInv, Sound, AgentsInv, Owns, Session
  <1>1. /\ call[r] = "held" /\ ~Custody(r)
        /\ \A q \in Request \ {r} : call'[q] = call[q] /\ outcome'[q] = outcome[q]
        /\ call'[r] \in {"unwind", "run"}
        /\ UNCHANGED <<target, kind, pc, status, popped, closed>>
    BY <1>0 DEF Attach, Step, End, Outside, Custody, Together
  <1>2. CASE UNCHANGED <<instances, built>>
    <2>1. \A q \in Request : Owns(q)' /\ (Custody(q) => Custody(q)')
      BY <1>1, <1>2 DEF AgentsInv, Owns, Custody
    <2> QED
      BY <1>1, <1>2, <2>1 DEF AgentsInv, BuiltFirst, Accounted, Cached
  <1>3. CASE Build(r, target[r]) /\ instances[target[r]] = None
    <2>1. \A q \in Request : Owns(q)' /\ (Custody(q) => Custody(q)')
      BY <1>0, <1>1, <1>3 DEF AgentsInv, Owns, Custody, Build
    <2>2. BuiltFirst'
      BY <1>0, <1>1, <1>3 DEF AgentsInv, BuiltFirst, Build
    <2>3. \A a \in built' : a = r \/ Cached(a) => Cached(a)'
      BY <1>0, <1>3 DEF Cached, Build
    <2>4. built' = built \cup {r}
      BY <1>3 DEF Build
    <2>5. Accounted'
      BY <1>1, <2>1, <2>3, <2>4 DEF AgentsInv, Accounted
    <2> QED
      BY <2>1, <2>2, <2>5
  <1> QED
    BY <1>2, <1>3 DEF Attach

(* A creation caches the agent of a session that has none.                 *)
LEMMA InstallAgents ==
  ASSUME GatewayType, SoundInv, AgentsInv, NEW r \in Request, InstallInstance(r), Outside,
         UNCHANGED closing
  PROVE  BuiltFirst' /\ (\A q \in Request : Owns(q)') /\ Accounted'
  <1>0. /\ call \in [Request -> Calls] /\ outcome \in [Request -> Outcomes \cup {None}]
        /\ instances \in [Session -> Request \cup {None}]
        /\ built \in SUBSET Request /\ target[r] = r /\ instances[r] = None
        /\ Together(r) /\ None \notin Request /\ Shared \notin Request
        /\ Request \subseteq Session
    BY ServiceAssumption
    DEF GatewayType, SoundInv, Sound, AgentsInv, Owns, Session, InstallInstance
  <1>1. /\ call[r] = "install" /\ ~Custody(r)
        /\ \A q \in Request \ {r} : call'[q] = call[q] /\ outcome'[q] = outcome[q]
        /\ call'[r] = "over"
        /\ UNCHANGED <<target, kind, pc, status, popped, closed>>
    BY <1>0 DEF InstallInstance, Step, End, Outside, Custody, Together
  <1>2. CASE UNCHANGED <<instances, built>>
    <2>1. \A q \in Request : Owns(q)' /\ (Custody(q) => Custody(q)')
      BY <1>1, <1>2 DEF AgentsInv, Owns, Custody
    <2> QED
      BY <1>1, <1>2, <2>1 DEF AgentsInv, BuiltFirst, Accounted, Cached
  <1>3. CASE Build(r, r)
    <2>1. \A q \in Request : Owns(q)' /\ (Custody(q) => Custody(q)')
      BY <1>0, <1>1, <1>3 DEF AgentsInv, Owns, Custody, Build
    <2>2. BuiltFirst'
      BY <1>0, <1>1, <1>3 DEF AgentsInv, BuiltFirst, Build
    <2>3. \A a \in built' : a = r \/ Cached(a) => Cached(a)'
      BY <1>0, <1>3 DEF Cached, Build
    <2>4. built' = built \cup {r}
      BY <1>3 DEF Build
    <2>5. Accounted'
      BY <1>1, <2>1, <2>3, <2>4 DEF AgentsInv, Accounted
    <2> QED
      BY <2>1, <2>2, <2>5
  <1> QED
    BY <1>0, <1>2, <1>3 DEF InstallInstance

(* A deletion takes the agent of its session into custody.                 *)
LEMMA PopAgents ==
  ASSUME GatewayType, SoundInv, AgentsInv, NEW d \in Request, PopInstance(d), Outside,
         UNCHANGED closing
  PROVE  BuiltFirst' /\ (\A q \in Request : Owns(q)') /\ Accounted'
  <1>0. /\ call \in [Request -> Calls] /\ instances \in [Session -> Request \cup {None}]
        /\ popped \in [Request -> Request \cup {None}] /\ target[d] \in Session
        /\ Together(d) /\ pc \in [Request -> PcValues] /\ Request \subseteq Session
    BY DEF GatewayType, SoundInv, Sound, Session
  <1>1. pc[d] = "handler"
    BY <1>0, ServiceAssumption
    DEF PopInstance, Together, OfMessage, InLock, PcValues, InFlight
  <1>2. /\ ~Custody(d) /\ Custody(d)'
        /\ popped'[d] = instances[target[d]]
        /\ \A q \in Request \ {d} : popped'[q] = popped[q] /\ call'[q] = call[q]
        /\ call'[d] = "del"
        /\ instances' = [instances EXCEPT ![target[d]] = None]
        /\ UNCHANGED <<target, outcome, kind, pc, status, built, closed>>
    BY <1>0, <1>1 DEF PopInstance, Step, Outside, Custody
  <1>3. \A q \in Request : Owns(q)' /\ (Custody(q) => Custody(q)')
    BY <1>0, <1>2 DEF AgentsInv, Owns, Custody
  <1>4. BuiltFirst'
    BY <1>0, <1>2 DEF AgentsInv, BuiltFirst
  <1>5. Accounted'
    <2> SUFFICES ASSUME NEW a \in built
                 PROVE  \/ a \in closed \/ Cached(a)'
                        \/ \E q \in Request : popped'[q] = a /\ Custody(q)'
      BY <1>2 DEF Accounted
    <2>1. CASE instances[target[d]] = a
      BY <1>2, <2>1
    <2>2. CASE instances[target[d]] # a
      <3>1. Cached(a) => Cached(a)'
        BY <1>0, <1>2, <2>2 DEF Cached
      <3>2. \A q \in Request : popped[q] = a /\ Custody(q) => popped'[q] = a /\ Custody(q)'
        BY <1>2, <1>3
      <3> QED
        BY <3>1, <3>2 DEF AgentsInv, Accounted
    <2> QED
      BY <2>1, <2>2
  <1> QED
    BY <1>3, <1>4, <1>5

(* And closes it.                                                          *)
LEMMA CloseAgents ==
  ASSUME GatewayType, SoundInv, AgentsInv, NEW d \in Request, CloseInstance(d), Outside,
         UNCHANGED closing
  PROVE  BuiltFirst' /\ (\A q \in Request : Owns(q)') /\ Accounted'
  <1>0. /\ call \in [Request -> Calls] /\ built \in SUBSET Request /\ None \notin Request
    BY ServiceAssumption DEF GatewayType
  <1>1. /\ closed' = closed \cup ({popped[d]} \ {None})
        /\ \A q \in Request \ {d} : call'[q] = call[q]
        /\ call'[d] = "over"
        /\ UNCHANGED <<target, outcome, kind, pc, status, built, instances, popped>>
    BY <1>0 DEF CloseInstance, ToClose, Step, Outside
  <1>2. \A q \in Request : Owns(q)' /\ (Custody(q) /\ q # d => Custody(q)')
    BY <1>1 DEF AgentsInv, Owns, Custody
  <1>3. BuiltFirst'
    BY <1>1 DEF AgentsInv, BuiltFirst
  <1>4. Accounted'
    BY <1>0, <1>1, <1>2 DEF AgentsInv, Accounted, Cached
  <1> QED
    BY <1>2, <1>3, <1>4
-----------------------------------------------------------------------------
(* Once drained, the only steps of requests left throw out what was left   *)
(* behind.                                                                 *)
LEMMA DrainedStep ==
  ASSUME GatewayType, SoundInv, NEW r \in Request, pc[r] \in {"idle", "done"}, RequestStep(r)
  PROVE  UNCHANGED <<pc, instances, closed>>
  <1>1. call[r] \in {"none", "over", "orphan"}
    BY DEF SoundInv, Sound, Together
  <1>2. ~Handling(r) /\ ~TimesOutElsewhere(r) /\ ~HangUp(r)
    BY DEF Handling, TurnAway, Probe, HandleRest, LookUp, HandleA2A, Resolve, Answer,
        AnswerFirstChunk, Respond, Escape, SendWorking, SendChunk, EndBody,
        TimesOutElsewhere, HangUp
  <1>3. ~Running(r)
    BY <1>1 DEF Running, Yield, RunEnds
  <1>4. Finalize(r) /\ Outside
    BY <1>1, <1>2, <1>3
    DEF RequestStep, Progress, Serving, Enter, Attach, TimeOut, RunTimesOut, SaveWrite,
        Release, PopInstance, DeleteKey, CloseInstance, StoreRecord, InstallInstance
  <1> QED
    BY <1>4 DEF Finalize, Outside, memory

(* No step of a request loses an agent.                                    *)
LEMMA StepAgents ==
  ASSUME GatewayType, SoundInv, AgentsInv, NEW r \in Request, RequestStep(r), UNCHANGED closing
  PROVE  BuiltFirst' /\ (\A q \in Request : Owns(q)') /\ Accounted'
  <1>0. Owns(r)
    BY DEF AgentsInv
  <1>1. CASE Handling(r)
    BY <1>0, <1>1, HandlingCareful, HandlingSound, CarefulKeeps
  <1>2. CASE TimesOutElsewhere(r) \/ HangUp(r)
    BY <1>0, <1>2, LeavingCareful, LeavingSound, CarefulKeeps
  <1>3. CASE (Serving(r) \/ Running(r)) /\ Outside
    <2>1. Only(r)
      BY <1>3, ServingSound, RunningSound DEF Running
    <2>2. CASE \/ Enter(r) \/ TimeOut(r) \/ Release(r) \/ Finalize(r) \/ DeleteKey(r)
               \/ StoreRecord(r) \/ Yield(r) \/ RunEnds(r) \/ SaveWrite(r)
      BY <1>0, <1>3, <2>1, <2>2, ServingCareful, CarefulKeeps
    <2> QED
      BY <1>3, <2>2, AttachAgents, InstallAgents, PopAgents, CloseAgents DEF Serving, Running
  <1> QED
    BY <1>1, <1>2, <1>3 DEF RequestStep, Progress

(* Requests, and what expires under them, keep the whole invariant.        *)
LEMMA RequestEventKeeps ==
  ASSUME Inv, RequestEvent, UNCHANGED life
  PROVE  Inv'
  <1>1. LifecycleType' /\ SoundInv'
    BY RequestKeeps DEF Inv, LifecycleType, RequestEvent, life
  <1>2. ASSUME NEW r \in Request, NEW k \in Kinds, NEW s \in Session,
               phase = "serving", Arrive(r, k, s)
        PROVE  AgentsInv'
    <2>1. BuiltFirst' /\ (\A q \in Request : Owns(q)') /\ Accounted'
      BY <1>2, ArriveCareful, ArriveSound, CarefulKeeps DEF Inv, LifecycleType, AgentsInv, life
    <2> QED
      BY <1>2, <2>1 DEF AgentsInv, Drained, AfterDrain, life
  <1>3. ASSUME NEW r \in Request, RequestStep(r)
        PROVE  AgentsInv'
    <2>1. BuiltFirst' /\ (\A q \in Request : Owns(q)') /\ Accounted'
      BY <1>3, StepAgents DEF Inv, LifecycleType, life
    <2>2. Drained'
      BY <1>3, DrainedStep DEF Inv, LifecycleType, AgentsInv, Drained, AfterDrain, life
    <2> QED
      BY <2>1, <2>2 DEF AgentsInv
  <1>4. CASE Expiry
    <2>1. UNCHANGED <<calling, memory, kind, pc, status, life>>
      BY <1>4 DEF Expiry, Outside, SessionExpires, LockExpires
    <2> USE <2>1 DEF Inv, AgentsInv, calling, memory, life
    <2>2. BuiltFirst' /\ (\A q \in Request : Owns(q)')
      BY DEF BuiltFirst, Owns
    <2>3. Accounted'
      BY DEF Accounted, Cached, Custody
    <2>4. Drained'
      BY DEF Drained, AfterDrain
    <2> QED
      BY <1>1, <2>2, <2>3, <2>4
  <1> QED
    BY <1>1, <1>2, <1>3, <1>4 DEF RequestEvent, Inv

(* What soundness depends on.                                              *)
soundVars == <<calling, lock, saved, kind, pc, status, code, events>>

(* Whatever leaves that alone keeps it.                                    *)
LEMMA SoundUntouched ==
  ASSUME SoundInv, UNCHANGED soundVars
  PROVE  SoundInv'
  BY DEF SoundInv, Sound, Together, Locks, Saves, Replies, Complete, EventStream,
      soundVars, calling

(* Starting, reloading and stopping keep the invariant too.                *)
LEMMA LifeKeeps ==
  ASSUME Inv,
         \/ StartUp \/ StartUpFails \/ HotReload \/ SignalStop
         \/ CloseAll \/ ClearInstances \/ StopWatcher \/ Disconnect
         \/ \E a \in Request : CloseOne(a)
  PROVE  Inv' /\ UNCHANGED soundVars
  <1> USE DEF Inv, LifecycleType, Phases, Watchers, AgentsInv, BuiltFirst, Owns, Accounted,
        Custody, Drained, AfterDrain, vars, serviceVars, calling, redis, memory, life, soundVars
  <1>1. CASE StartUp
    <2>1. UNCHANGED soundVars
      BY <1>1 DEF StartUp
    <2>2. LifecycleType'
      BY <1>1 DEF GatewayType, StartUp
    <2>3. AgentsInv'
      BY <1>1 DEF GatewayType, Cached, StartUp
    <2> QED
      BY <2>1, <2>2, <2>3, SoundUntouched
  <1>2. CASE StartUpFails
    <2>1. UNCHANGED soundVars
      BY <1>2 DEF StartUpFails
    <2>2. LifecycleType'
      BY <1>2 DEF GatewayType, StartUpFails
    <2>3. AgentsInv'
      BY <1>2 DEF GatewayType, Cached, StartUpFails
    <2> QED
      BY <2>1, <2>2, <2>3, SoundUntouched
  <1>3. CASE HotReload
    <2>1. UNCHANGED soundVars
      BY <1>3 DEF HotReload, Reload
    <2>2. LifecycleType'
      BY <1>3 DEF GatewayType, HotReload, Reload
    <2>3. AgentsInv'
      BY <1>3 DEF GatewayType, Cached, HotReload, Reload
    <2> QED
      BY <2>1, <2>2, <2>3, SoundUntouched
  <1>4. CASE SignalStop
    <2>1. UNCHANGED soundVars
      BY <1>4 DEF SignalStop
    <2>2. LifecycleType'
      BY <1>4 DEF GatewayType, SignalStop
    <2>3. AgentsInv'
      BY <1>4 DEF GatewayType, Cached, SignalStop
    <2> QED
      BY <2>1, <2>2, <2>3, SoundUntouched
  <1>5. CASE CloseAll
    <2>1. UNCHANGED soundVars
      BY <1>5 DEF CloseAll
    <2>2. LifecycleType'
      BY <1>5 DEF GatewayType, CloseAll
    <2>3. AgentsInv'
      BY <1>5 DEF GatewayType, Cached, CloseAll
    <2> QED
      BY <2>1, <2>2, <2>3, SoundUntouched
  <1>6. CASE ClearInstances
    <2>1. UNCHANGED soundVars
      BY <1>6 DEF ClearInstances
    <2>2. LifecycleType'
      BY <1>6 DEF GatewayType, ClearInstances
    <2>3. /\ closing = {} /\ phase = "closing" /\ phase' = "stopping"
          /\ \A s \in Session : instances'[s] = None
          /\ UNCHANGED <<calling, kind, pc, status, built, closed, popped, watcher, closing>>
      BY <1>6 DEF ClearInstances
    <2>4. \A a \in built : Cached(a) => a \in closed
      BY <2>3, ServiceAssumption DEF GatewayType, Cached
    <2>5. BuiltFirst' /\ Drained'
      BY <2>3
    <2>6. (\A q \in Request : Owns(q)') /\ Accounted'
      BY <2>3, <2>4 DEF Session
    <2>7. AgentsInv'
      BY <2>5, <2>6
    <2> QED
      BY <2>1, <2>2, <2>7, SoundUntouched
  <1>7. CASE StopWatcher
    <2>1. UNCHANGED soundVars
      BY <1>7 DEF StopWatcher
    <2>2. LifecycleType'
      BY <1>7 DEF GatewayType, StopWatcher
    <2>3. AgentsInv'
      BY <1>7 DEF GatewayType, Cached, StopWatcher
    <2> QED
      BY <2>1, <2>2, <2>3, SoundUntouched
  <1>8. CASE Disconnect
    <2>1. UNCHANGED soundVars
      BY <1>8 DEF Disconnect
    <2>2. LifecycleType'
      BY <1>8 DEF GatewayType, Disconnect
    <2>3. AgentsInv'
      BY <1>8 DEF GatewayType, Cached, Disconnect
    <2> QED
      BY <2>1, <2>2, <2>3, SoundUntouched
  <1>9. ASSUME NEW a \in Request, CloseOne(a)
        PROVE  Inv' /\ UNCHANGED soundVars
    <2>1. UNCHANGED soundVars
      BY <1>9 DEF CloseOne
    <2>2. LifecycleType'
      BY <1>9 DEF GatewayType, CloseOne
    <2>3. /\ a \in closing /\ closing' = closing \ {a} /\ closed' = closed \cup {a}
          /\ UNCHANGED <<calling, kind, pc, status, built, instances, popped, phase, watcher>>
      BY <1>9 DEF CloseOne
    <2>4. BuiltFirst' /\ (\A q \in Request : Owns(q)')
      BY <2>3
    <2>5. Accounted'
      BY <2>3 DEF Cached
    <2>6. Drained'
      BY <2>3
    <2> QED
      BY <2>1, <2>2, <2>4, <2>5, <2>6, SoundUntouched
  <1> QED
    BY <1>1, <1>2, <1>3, <1>4, <1>5, <1>6, <1>7, <1>8, <1>9

(* Nothing has happened yet.                                               *)
LEMMA InitInv == Init => Inv
  <1> SUFFICES ASSUME Init
               PROVE  Inv
    OBVIOUS
  <1> USE DEF Init, GatewayInit, ServiceInit
  <1>1. LifecycleType
    <2>1. /\ target \in [Request -> Session] /\ stored \in SUBSET Session
          /\ lock \in [Session -> Request \cup {None}]
          /\ instances \in [Session -> Request \cup {None}]
      BY DEF Session
    <2>2. /\ call \in [Request -> Calls] /\ pc \in [Request -> PcValues]
          /\ outcome \in [Request -> Outcomes \cup {None}]
          /\ kind \in [Request -> Kinds \cup {None}]
          /\ popped \in [Request -> Request \cup {None}]
      BY Labels
    <2>3. /\ produced \in [Request -> 0..MaxChunks] /\ status \in [Request -> Nat]
          /\ code \in [Request -> Int] /\ active \in Int /\ recorded \in [Request -> Nat]
      BY ServiceAssumption
    <2>4. events \in [Request -> Seq(Done..MaxChunks)]
      OBVIOUS
    <2> QED
      BY <2>1, <2>2, <2>3, <2>4 DEF LifecycleType, GatewayType, Phases, Watchers
  <1>2. SoundInv
    BY ServiceAssumption
    DEF SoundInv, Sound, Together, Locks, Saves, Replies, Complete, InLock, OfMessage, Messages
  <1>3. AgentsInv
    <2>1. \A q \in Request : Owns(q)
      BY DEF Owns, Session
    <2>2. BuiltFirst /\ Accounted /\ Drained
      BY DEF BuiltFirst, Accounted, Drained, AfterDrain
    <2> QED
      BY <2>1, <2>2 DEF AgentsInv
  <1> QED
    BY <1>1, <1>2, <1>3 DEF Inv

(* One step of the process.                                                *)
LEMMA NextInv == Inv /\ [Next]_allVars => Inv'
  <1> SUFFICES ASSUME Inv, [Next]_allVars
               PROVE  Inv'
    OBVIOUS
  <1>1. CASE RequestEvent /\ UNCHANGED life
    BY <1>1, RequestEventKeeps
  <1>2. CASE StartUp \/ StartUpFails \/ HotReload \/ SignalStop \/ ShutDown
    BY <1>2, LifeKeeps DEF ShutDown
  <1>3. CASE UNCHANGED allVars
    <2>1. SoundInv'
      BY <1>3, SoundUntouched DEF Inv, allVars, vars, serviceVars, calling, redis, soundVars
    <2>2. LifecycleType' /\ AgentsInv'
      BY <1>3
      DEF Inv, LifecycleType, GatewayType, AgentsInv, BuiltFirst, Owns, Accounted, Cached, Custody,
          Drained, allVars, vars, serviceVars, calling, redis, memory, life
    <2> QED
      BY <2>1, <2>2 DEF Inv
  <1> QED
    BY <1>1, <1>2, <1>3 DEF Next

(* The invariant holds.                                                    *)
LEMMA AlwaysInv == Spec => []Inv
  BY InitInv, NextInv, PTL DEF Spec

(* Every variable of the process has its type, and every agent that is     *)
(* cached, popped or closed was built.                                     *)
THEOREM ProcessTypeCorrect == Spec => []TypeOK
  <1>1. Inv => TypeOK
    BY DEF Inv, AgentsInv, BuiltFirst, TypeOK
  <1> QED
    BY <1>1, AlwaysInv, PTL

(* A process that has stopped has closed every agent but those whose       *)
(* deletion failed in Redis, for any set of requests.                      *)
THEOREM ProcessStopsClean == Spec => []CleanStop
  <1>1. Inv => CleanStop
    <2> SUFFICES ASSUME Inv, phase = "stopped"
                 PROVE  /\ \A r \in Request : pc[r] \in {"idle", "done"}
                        /\ watcher # "watching"
                        /\ built \subseteq closed
                             \cup {popped[d] : d \in {q \in Request : status[q] = 500}}
      BY DEF CleanStop
    <2>1. (\A r \in Request : pc[r] \in {"idle", "done"}) /\ watcher # "watching"
      BY DEF Inv, AgentsInv, Drained, AfterDrain
    <2>2. \A s \in Session : instances[s] = None
      BY DEF Inv, AgentsInv, Drained, AfterDrain
    <2>3. ASSUME NEW a \in built, a \notin closed
          PROVE  \E d \in Request : popped[d] = a /\ status[d] = 500
      <3>1. a # None
        BY ServiceAssumption DEF Inv, LifecycleType, GatewayType
      <3> QED
        BY <2>1, <2>2, <2>3, <3>1 DEF Inv, AgentsInv, Accounted, Cached, Custody
    <2> QED
      BY <2>1, <2>3
  <1> QED
    BY <1>1, AlwaysInv, PTL

(* The process keeps what Exchange promises the sender of a message.       *)
THEOREM ProcessImplementsExchange == Spec => ImplementsExchange
  <1>1. Init => Promise!Init
    BY DEF Init, GatewayInit, ServiceInit, Promise!Init, Told
  <1>2. Inv /\ [Next]_allVars => [Promise!Next]_Promise!vars
    <2> SUFFICES ASSUME Inv, [Next]_allVars
                 PROVE  [Promise!Next]_Promise!vars
      OBVIOUS
    <2>1. CASE RequestEvent
      BY <2>1, RequestRefines DEF Inv, LifecycleType, RequestEvent
    <2>2. CASE UNCHANGED soundVars
      <3>1. \A q \in Request : Told(q)' = Told(q)
        BY <2>2 DEF soundVars, Told, Ended, EventStream
      <3> QED
        BY <2>2, <3>1, SilentRefines DEF soundVars
    <2>3. CASE UNCHANGED allVars
      BY <2>2, <2>3 DEF allVars, vars, serviceVars, redis, soundVars
    <2> QED
      BY <2>1, <2>2, <2>3, LifeKeeps DEF Next, ShutDown
  <1> QED
    BY <1>1, <1>2, AlwaysInv, PTL DEF Spec, ImplementsExchange, Promise!Spec
-----------------------------------------------------------------------------
(* The metrics: whether a request is in the gauge, and which requests are. *)
Counted(q) == pc[q] \in InFlight /\ Metered(q)
InGauge == {q \in Request : Counted(q)}

(* A probe never calls a handler, and what was sent was recorded.          *)
Measured(q) ==
  /\ pc[q] \in InFlight \ {"stack", "respond"} => Metered(q)
  /\ pc[q] \in {"body", "done"} /\ Metered(q) => recorded[q] = status[q]

MetricsInv == active = Cardinality(InGauge) /\ \A q \in Request : Measured(q)

(* A step of r raises the gauge when r enters it, lowers it when r leaves. *)
Moves(r) ==
  \/ active' = active /\ (Counted(r)' <=> Counted(r))
  \/ active' = active + 1 /\ ~Counted(r) /\ Counted(r)'
  \/ active' = active - 1 /\ Counted(r) /\ ~Counted(r)'

(* A step of r, as the metrics see it.                                     *)
Metering(r) ==
  /\ Moves(r)
  /\ Measured(r)'
  /\ \A q \in Request \ {r} : /\ kind'[q] = kind[q] /\ pc'[q] = pc[q]
                              /\ status'[q] = status[q] /\ recorded'[q] = recorded[q]

(* Every step of a request is such a step.                                 *)
LEMMA StepMeters ==
  ASSUME GatewayType, SoundInv, NEW r \in Request, Measured(r), RequestStep(r)
  PROVE  Metering(r)
  <1>0. /\ pc \in [Request -> PcValues] /\ status \in [Request -> Nat]
        /\ recorded \in [Request -> Nat] /\ active \in Int
        /\ Together(r)
    BY DEF GatewayType, SoundInv, Sound
  <1> USE <1>0 DEF Metering, Moves, Counted, Measured, Metered, InFlight, Together, Quiet,
        Goto, Await, Reply, Raise, GaugeDrops, Record, EventStream, Streams
  <1>1. CASE TurnAway(r)
    BY <1>1 DEF TurnAway
  <1>2. CASE Probe(r)
    BY <1>2 DEF Probe
  <1>3. CASE HandleRest(r)
    BY <1>3 DEF HandleRest, Rest
  <1>4. CASE LookUp(r)
    BY <1>4 DEF LookUp
  <1>5. CASE HandleA2A(r)
    BY <1>5 DEF HandleA2A, A2A
  <1>6. CASE Resolve(r)
    BY <1>6 DEF Resolve
  <1>7. CASE Answer(r)
    BY <1>7 DEF Answer
  <1>8. CASE AnswerFirstChunk(r)
    BY <1>8 DEF AnswerFirstChunk
  <1>9. CASE Respond(r)
    BY <1>9 DEF Respond
  <1>10. CASE Escape(r)
    BY <1>10 DEF Escape
  <1>11. CASE SendWorking(r)
    BY <1>11 DEF SendWorking
  <1>12. CASE SendChunk(r)
    BY <1>12 DEF SendChunk
  <1>13. CASE EndBody(r)
    BY <1>13 DEF EndBody
  <1>14. CASE TimesOutElsewhere(r)
    BY <1>14 DEF TimesOutElsewhere
  <1>15. CASE HangUp(r)
    BY <1>15 DEF HangUp
  <1>16. CASE (Serving(r) \/ Running(r)) /\ Outside
    BY <1>16 DEF Outside
  <1> QED
    BY <1>1, <1>2, <1>3, <1>4, <1>5, <1>6, <1>7, <1>8, <1>9, <1>10, <1>11, <1>12, <1>13,
       <1>14, <1>15, <1>16
    DEF RequestStep, Progress, Handling

(* The gauge of finitely many requests stays exact through such a step.    *)
LEMMA MeteringCounts ==
  ASSUME IsFiniteSet(Request), MetricsInv, NEW r \in Request, Metering(r)
  PROVE  MetricsInv'
  <1>1. \A q \in Request : Measured(q)'
    BY DEF MetricsInv, Metering, Measured, Metered
  <1>2. \A q \in Request \ {r} : Counted(q)' <=> Counted(q)
    BY DEF Metering, Counted, Metered
  <1>3. IsFiniteSet(InGauge)
    BY FS_Subset DEF InGauge
  <1>4. Cardinality(InGauge) \in Nat
    BY <1>3, FS_CardinalityType
  <1>5. active' = Cardinality(InGauge')
    <2>1. CASE active' = active /\ (Counted(r)' <=> Counted(r))
      <3>1. InGauge' = InGauge
        BY <2>1, <1>2 DEF InGauge
      <3> QED
        BY <2>1, <3>1 DEF MetricsInv
    <2>2. CASE active' = active + 1 /\ ~Counted(r) /\ Counted(r)'
      <3>1. InGauge' = InGauge \cup {r} /\ r \notin InGauge
        BY <2>2, <1>2 DEF InGauge
      <3> QED
        BY <2>2, <3>1, <1>3, FS_AddElement DEF MetricsInv
    <2>3. CASE active' = active - 1 /\ Counted(r) /\ ~Counted(r)'
      <3>1. InGauge' = InGauge \ {r} /\ r \in InGauge
        BY <2>3, <1>2 DEF InGauge
      <3> QED
        BY <2>3, <3>1, <1>3, FS_RemoveElement DEF MetricsInv
    <2> QED
      BY <2>1, <2>2, <2>3 DEF Metering, Moves
  <1> QED
    BY <1>1, <1>5 DEF MetricsInv

(* The gauge of requests in flight and the recorded statuses are true, for *)
(* any finite set of requests.                                             *)
THEOREM ProcessMetricsAreTrue ==
  ASSUME IsFiniteSet(Request)
  PROVE  Spec => []MetricsAreTrue
  <1>1. Init => MetricsInv
    <2> SUFFICES ASSUME Init
                 PROVE  MetricsInv
      OBVIOUS
    <2>1. InGauge = {}
      BY DEF Init, GatewayInit, InGauge, Counted, InFlight
    <2>2. \A q \in Request : Measured(q)
      BY DEF Init, GatewayInit, Measured, InFlight
    <2> QED
      BY <2>1, <2>2, FS_EmptySet DEF MetricsInv, Init, GatewayInit
  <1>2. Inv /\ MetricsInv /\ [Next]_allVars => MetricsInv'
    <2> SUFFICES ASSUME Inv, MetricsInv, [Next]_allVars
                 PROVE  MetricsInv'
      OBVIOUS
    <2>1. ASSUME NEW r \in Request, NEW k \in Kinds, NEW s \in Session, Arrive(r, k, s)
          PROVE  MetricsInv'
      <3>1. /\ pc \in [Request -> PcValues] /\ kind \in [Request -> Kinds \cup {None}]
            /\ active \in Int
        BY DEF Inv, LifecycleType, GatewayType
      <3>2. Metering(r)
        BY <2>1, <3>1
        DEF Arrive, Goto, GaugeRises, Metering, Moves, Counted, Measured, Metered, InFlight
      <3> QED
        BY <3>2, MeteringCounts
    <2>2. ASSUME NEW r \in Request, RequestStep(r)
          PROVE  MetricsInv'
      BY <2>2, StepMeters, MeteringCounts DEF Inv, LifecycleType, MetricsInv
    <2>3. CASE UNCHANGED <<kind, pc, status, active, recorded>>
      BY <2>3 DEF MetricsInv, InGauge, Counted, Measured, Metered
    <2>4. CASE Expiry \/ StartUp \/ StartUpFails \/ HotReload \/ SignalStop \/ ShutDown
      BY <2>3, <2>4
      DEF Expiry, Outside, StartUp, StartUpFails, HotReload, Reload, SignalStop, ShutDown,
          CloseAll, CloseOne, ClearInstances, StopWatcher, Disconnect, vars
    <2>5. CASE UNCHANGED allVars
      BY <2>3, <2>5 DEF allVars, vars
    <2> QED
      BY <2>1, <2>2, <2>4, <2>5 DEF Next, RequestEvent
  <1>3. MetricsInv => MetricsAreTrue
    BY DEF MetricsInv, MetricsAreTrue, InGauge, Counted, Measured
  <1> QED
    BY <1>1, <1>2, <1>3, AlwaysInv, PTL DEF Spec
-----------------------------------------------------------------------------
(* A stream brings event i - Offset as its i-th, up to the last chunk sent.*)
Offset(q) == IF kind[q] = "stream" THEN 0 ELSE 1
Brings(q, n) == \A i \in 1..(n + Offset(q)) : events[q][i] = i - Offset(q)

(* How many of the chunks that were yielded must have been sent.           *)
Due(q) == IF call[q] = "yielded" THEN produced[q] - 1 ELSE produced[q]

(* Where a stream is: nothing is sent before the body, then every chunk but*)
(* the one the run is suspended at, and in the end all of them.            *)
Streaming(q) ==
  /\ pc[q] \notin {"body", "done"} => events[q] = <<>>
  /\ pc[q] \notin {"raised", "body", "done"} => Due(q) = 0
  /\ call[q] = "yielded" => produced[q] # 0
  /\ pc[q] = "body" =>
       \/ /\ events[q] = <<>> /\ Due(q) = 0
          /\ kind[q] = "a2aStream" /\ call[q] \in {"yielded", "over"}
       \/ Len(events[q]) = Due(q) + Offset(q) /\ Brings(q, Due(q))
  /\ pc[q] = "done" /\ EventStream(q) /\ Ended(q) =>
       Len(events[q]) = produced[q] + Offset(q) + 1 /\ Brings(q, produced[q])

(* A step of r leaves the streams of others alone.                         *)
Beside(r) ==
  \A q \in Request \ {r} :
    /\ call'[q] = call[q] /\ produced'[q] = produced[q] /\ events'[q] = events[q]
    /\ kind'[q] = kind[q] /\ pc'[q] = pc[q] /\ status'[q] = status[q] /\ code'[q] = code[q]

(* Then they are where they were.                                          *)
LEMMA OthersStream ==
  ASSUME NEW r \in Request, Beside(r), NEW q \in Request \ {r}, Streaming(q)
  PROVE  Streaming(q)'
  <1>1. /\ call'[q] = call[q] /\ produced'[q] = produced[q] /\ events'[q] = events[q]
        /\ kind'[q] = kind[q] /\ pc'[q] = pc[q] /\ status'[q] = status[q] /\ code'[q] = code[q]
    BY DEF Beside
  <1> QED
    BY <1>1 DEF Streaming, Due, Brings, Offset, EventStream, Ended

(* Handlers and bodies send what is due.                                   *)
LEMMA HandlingStreams ==
  ASSUME GatewayType, SoundInv, NEW r \in Request, Streaming(r), Handling(r)
  PROVE  Beside(r) /\ Streaming(r)'
  <1>0. /\ pc \in [Request -> PcValues] /\ status \in [Request -> Nat]
        /\ code \in [Request -> Int] /\ call \in [Request -> Calls]
        /\ events \in [Request -> Seq(Done..MaxChunks)] /\ produced \in [Request -> 0..MaxChunks]
        /\ Together(r) /\ Replies(r) /\ MaxChunks \in Nat
    BY ServiceAssumption DEF GatewayType, SoundInv, Sound
  <1>00. events[r] \in Seq(Done..MaxChunks) /\ produced[r] \in Nat
    BY <1>0
  <1> USE <1>00, <1>0 DEF Beside, Streaming, Together, Quiet, Goto, Await, Reply, Raise, EventStream,
        Streams, Due, calling, Step, End
  <1>1. CASE TurnAway(r)
    BY <1>1 DEF TurnAway
  <1>2. CASE Probe(r)
    BY <1>2 DEF Probe
  <1>3. CASE HandleRest(r)
    BY <1>3 DEF HandleRest, Rest
  <1>4. CASE LookUp(r)
    BY <1>4 DEF LookUp
  <1>5. CASE HandleA2A(r)
    BY <1>5 DEF HandleA2A, A2A
  <1>6. CASE Resolve(r)
    BY <1>6 DEF Resolve
  <1>7. CASE Answer(r)
    BY <1>7 DEF Answer
  <1>8. CASE AnswerFirstChunk(r)
    BY <1>8 DEF AnswerFirstChunk
  <1>9. CASE Respond(r)
    <2>1. CASE EventStream(r) /\ kind[r] = "stream"
      BY <1>9, <2>1 DEF Respond, Offset, Brings, Replies, Messages
    <2>2. CASE EventStream(r) /\ kind[r] # "stream"
      BY <1>9, <2>2 DEF Respond, Replies, Messages
    <2>3. CASE ~EventStream(r)
      BY <1>9, <2>3 DEF Respond
    <2> QED
      BY <2>1, <2>2, <2>3
  <1>10. CASE Escape(r)
    BY <1>10 DEF Escape, serviceVars
  <1>11. CASE SendWorking(r)
    BY <1>11 DEF SendWorking, Emit, Working, Offset, Brings, serviceVars, Messages, OfMessage, InLock
  <1>12. CASE SendChunk(r)
    BY <1>12 DEF SendChunk, SendPending, SendEachChunk, Emit, Opened, Offset, Brings
  <1>13. CASE EndBody(r)
    <2>1. Len(events[r]) = produced[r] + Offset(r) /\ Brings(r, produced[r]) /\ Due(r) = produced[r]
      BY <1>13 DEF EndBody, Opened
    <2>2. /\ call' = call /\ produced' = produced /\ kind' = kind /\ status' = status /\ code' = code
          /\ pc' = [pc EXCEPT ![r] = "done"] /\ call[r] = "over"
      BY <1>13 DEF EndBody, serviceVars
    <2>3. CASE events' = [events EXCEPT ![r] = Append(@, Done)]
      <3>1. /\ Len(events'[r]) = Len(events[r]) + 1
            /\ \A i \in 1..Len(events[r]) : events'[r][i] = events[r][i]
        BY <2>3
      <3> QED
        BY <2>1, <2>2, <2>3, <3>1 DEF Offset, Brings
    <2>4. CASE events' = events
      <3>1. ~Ended(r)'
        BY <1>13, <2>4 DEF EndBody, Replies, Ended, Done
      <3> QED
        BY <2>2, <2>4, <3>1
    <2> QED
      BY <1>13, <2>3, <2>4 DEF EndBody, Emit
  <1> QED
    BY <1>1, <1>2, <1>3, <1>4, <1>5, <1>6, <1>7, <1>8, <1>9, <1>10, <1>11, <1>12, <1>13
    DEF Handling

(* The manager produces them, one at a time.                               *)
LEMMA ManagerStreams ==
  ASSUME GatewayType, SoundInv, NEW r \in Request, Streaming(r), Outside, Serving(r) \/ Running(r)
  PROVE  Beside(r) /\ Streaming(r)'
  <1>0. /\ call \in [Request -> Calls] /\ produced \in [Request -> 0..MaxChunks]
        /\ Together(r) /\ MaxChunks \in Nat
    BY ServiceAssumption DEF GatewayType, SoundInv, Sound
  <1> DEFINE StepsBy(c) == /\ call[r] \notin {"yielded", "over"} /\ c # "yielded"
                           /\ call' = [call EXCEPT ![r] = c] /\ UNCHANGED produced
  <1>1. ASSUME NEW c \in Calls, StepsBy(c)
        PROVE  Beside(r) /\ Streaming(r)'
    <2>1. Beside(r)
      BY <1>1, <1>0 DEF Beside, Outside
    <2>2. /\ call'[r] = c /\ c # "yielded" /\ call[r] \notin {"yielded", "over"}
          /\ produced'[r] = produced[r] /\ Due(r)' = Due(r)
      BY <1>1, <1>0 DEF Due
    <2>3. (EventStream(r)' <=> EventStream(r)) /\ (Ended(r)' <=> Ended(r))
      BY DEF Outside, EventStream, Ended
    <2>4. Offset(r)' = Offset(r) /\ Brings(r, Due(r))' = Brings(r, Due(r))
          /\ Brings(r, produced[r])' = Brings(r, produced[r])
      BY <2>2 DEF Outside, Offset, Brings
    <2> QED
      BY <2>1, <2>2, <2>3, <2>4 DEF Streaming, Outside
  <1>2. (\E c \in Calls : StepsBy(c)) \/ Yield(r)
    <2> USE Labels DEF calling, Step, End
    <2>1. CASE Enter(r) \/ Attach(r)
      BY <2>1 DEF Enter, Attach
    <2>2. CASE TimeOut(r) \/ Release(r) \/ Finalize(r)
      BY <2>2 DEF TimeOut, RunTimesOut, Release, Finalize
    <2>3. CASE PopInstance(r) \/ DeleteKey(r) \/ CloseInstance(r)
      BY <2>3 DEF PopInstance, DeleteKey, CloseInstance
    <2>4. CASE StoreRecord(r) \/ InstallInstance(r)
      BY <2>4 DEF StoreRecord, InstallInstance
    <2>5. CASE Yield(r) \/ RunEnds(r) \/ SaveWrite(r)
      BY <2>5 DEF RunEnds, SaveWrite
    <2> QED
      BY <2>1, <2>2, <2>3, <2>4, <2>5 DEF Serving, Running
  <1>3. CASE Yield(r)
    BY <1>3, <1>0
    DEF Yield, Step, Beside, Streaming, Together, Outside, EventStream, Streams, Due, Offset,
        Brings, Ended
  <1> HIDE DEF StepsBy
  <1> QED
    BY <1>1, <1>2, <1>3

(* A request that arrives has had nothing; a stream left early has no end. *)
LEMMA LeavingStreams ==
  ASSUME GatewayType, SoundInv, NEW r \in Request, Streaming(r),
         \/ TimesOutElsewhere(r) \/ HangUp(r)
         \/ \E k \in Kinds, s \in Session : Arrive(r, k, s)
  PROVE  Beside(r) /\ Streaming(r)'
  <1>0. /\ pc \in [Request -> PcValues] /\ call \in [Request -> Calls]
        /\ events \in [Request -> Seq(Done..MaxChunks)] /\ produced \in [Request -> 0..MaxChunks]
        /\ kind \in [Request -> Kinds \cup {None}]
        /\ Together(r) /\ Replies(r) /\ MaxChunks \in Nat
    BY ServiceAssumption DEF GatewayType, SoundInv, Sound
  <1>1. pc[r] # "done" => ~Ended(r)
    BY <1>0 DEF Replies, Ended, Done
  <1> USE <1>0, <1>1 DEF Beside, Streaming, Together, Goto, Due, Step, Left, Ended, EventStream
  <1>2. CASE TimesOutElsewhere(r)
    BY <1>2 DEF TimesOutElsewhere
  <1>3. CASE HangUp(r)
    BY <1>3 DEF HangUp
  <1>4. CASE \E k \in Kinds, s \in Session : Arrive(r, k, s)
    BY <1>4 DEF Arrive
  <1> QED
    BY <1>2, <1>3, <1>4

(* What is up to m + 1 is up to m, or m + 1.                               *)
LEMMA UpToLast ==
  ASSUME NEW m \in Nat, NEW i \in 1..(m + 1)
  PROVE  (i <= m /\ i \in 1..m) \/ i = m + 1
  OBVIOUS

(* A stream that ended where it should is whole.                           *)
LEMMA EndIsWhole ==
  ASSUME GatewayType, NEW q \in Request, Ended(q),
         Len(events[q]) = produced[q] + Offset(q) + 1, Brings(q, produced[q]),
         kind[q] \in Streams
  PROVE  IsWhole(q)
  <1> DEFINE n == produced[q]
             p == IF kind[q] = "stream" THEN <<>> ELSE <<Working>>
             c == [i \in 1..n |-> i]
             w == p \o c \o <<Done>>
  <1>1. n \in Nat /\ events[q] \in Seq(Int)
    BY ServiceAssumption, SeqMonotonic DEF GatewayType, Done
  <1>2. p \in Seq(Int) /\ Len(p) = Offset(q) /\ c \in Seq(Int) /\ Len(c) = n
    BY <1>1 DEF Offset, Working
  <1>3. <<Done>> \in Seq(Int) /\ Len(<<Done>>) = 1 /\ <<Done>>[1] = Done
    BY DEF Done
  <1>4. Offset(q) \in Nat /\ \A i \in 1..Offset(q) : p[i] = i - Offset(q)
    BY DEF Offset, Working
  <1> HIDE DEF n, p
  <1>5. \A i \in 1..n : c[i] = i
    OBVIOUS
  <1> HIDE DEF c
  <1>6. /\ p \o c \in Seq(Int) /\ Len(p \o c) = Offset(q) + n
        /\ \A i \in 1..(Offset(q) + n) : (p \o c)[i] = i - Offset(q)
    <2>1. \A i \in 1..(Len(p) + Len(c)) : (p \o c)[i] = IF i <= Len(p) THEN p[i] ELSE c[i - Len(p)]
      BY <1>2, ConcatProperties
    <2>2. p \o c \in Seq(Int) /\ Len(p \o c) = Offset(q) + n
      <3>1. p \o c \in Seq(Int) /\ Len(p \o c) = Len(p) + Len(c)
        BY <1>2, ConcatProperties
      <3> QED
        BY <1>2, <3>1
    <2>3. ASSUME NEW i \in 1..(Offset(q) + n)
          PROVE  (p \o c)[i] = i - Offset(q)
      <3>1. CASE i <= Offset(q)
        BY <1>1, <1>2, <1>4, <2>1, <2>3, <3>1
      <3>2. CASE i > Offset(q)
        <4>1. i - Offset(q) \in 1..n
          BY <1>1, <1>4, <2>3, <3>2
        <4> QED
          BY <1>1, <1>2, <1>4, <1>5, <2>1, <3>2, <4>1
      <3>3. i <= Offset(q) \/ i > Offset(q)
        BY <1>1, <1>4, <2>3
      <3> QED
        BY <3>1, <3>2, <3>3
    <2> QED
      BY <2>2, <2>3
  <1>7. /\ w \in Seq(Int) /\ Len(w) = Offset(q) + n + 1
        /\ \A i \in 1..(Offset(q) + n + 1) :
             w[i] = IF i <= Offset(q) + n THEN (p \o c)[i] ELSE Done
    <2> DEFINE b == p \o c
               d == <<Done>>
    <2>1. b \in Seq(Int) /\ d \in Seq(Int) /\ Len(b) = Offset(q) + n /\ Len(d) = 1 /\ d[1] = Done
      BY <1>3, <1>6
    <2>2. w = b \o d
      BY DEF w
    <2> HIDE DEF b, d
    <2>3. /\ b \o d \in Seq(Int) /\ Len(b \o d) = Len(b) + Len(d)
          /\ \A i \in 1..(Len(b) + Len(d)) : (b \o d)[i] = IF i <= Len(b) THEN b[i] ELSE d[i - Len(b)]
      BY <2>1, ConcatProperties
    <2>4. ASSUME NEW i \in 1..(Offset(q) + n + 1)
          PROVE  w[i] = IF i <= Offset(q) + n THEN b[i] ELSE Done
      <3>1. CASE i <= Offset(q) + n
        BY <1>1, <1>4, <2>1, <2>2, <2>3, <2>4, <3>1
      <3>2. CASE i = Offset(q) + n + 1
        <4>1. i - Len(b) = 1 /\ ~(i <= Len(b)) /\ i \in 1..(Len(b) + Len(d))
          BY <1>1, <1>4, <2>1, <3>2
        <4> QED
          BY <1>1, <1>4, <2>1, <2>2, <2>3, <3>2, <4>1
      <3>3. i <= Offset(q) + n \/ i = Offset(q) + n + 1
        <4>1. Offset(q) + n \in Nat
          BY <1>1, <1>4
        <4> QED
          BY <2>4, <4>1, UpToLast
      <3> QED
        BY <3>1, <3>2, <3>3
    <2> QED
      BY <1>1, <1>4, <2>1, <2>2, <2>3, <2>4 DEF b
  <1> HIDE DEF w
  <1>8. \A i \in 1..(Offset(q) + n + 1) : events[q][i] = w[i]
    <2>1. ASSUME NEW i \in 1..(Offset(q) + n)
          PROVE  events[q][i] = w[i]
      <3>1. events[q][i] = i - Offset(q)
        BY <1>1, <1>4, <2>1 DEF Brings, n
      <3>2. i \in 1..(Offset(q) + n + 1) /\ i <= Offset(q) + n
        BY <1>1, <1>4, <2>1
      <3>3. w[i] = (p \o c)[i]
        BY <1>7, <3>2
      <3>4. (p \o c)[i] = i - Offset(q)
        BY <1>6, <2>1
      <3> QED
        BY <3>1, <3>3, <3>4
    <2>2. events[q][Offset(q) + n + 1] = w[Offset(q) + n + 1]
      BY <1>1, <1>4, <1>7 DEF Ended, n
    <2>3. \A i \in 1..(Offset(q) + n + 1) : i \in 1..(Offset(q) + n) \/ i = Offset(q) + n + 1
      <3>1. Offset(q) + n \in Nat
        BY <1>1, <1>4
      <3> QED
        BY <3>1, UpToLast
    <2> QED
      BY <2>1, <2>2, <2>3
  <1>9. events[q] = w
    BY <1>1, <1>7, <1>8, SeqEqual DEF Offset, n
  <1> QED
    BY <1>9 DEF IsWhole, w, p, c, n

(* A stream that ends with its done event has brought every chunk once and *)
(* in order, for any set of requests and any number of chunks.             *)
THEOREM ProcessStreamsAreWhole == Spec => []StreamIsWhole
  <1> DEFINE StreamInv == \A q \in Request : Streaming(q)
  <1>1. Init => StreamInv
    BY DEF Init, GatewayInit, ServiceInit, Streaming, Due
  <1>2. Inv /\ StreamInv /\ [Next]_allVars => StreamInv'
    <2> SUFFICES ASSUME Inv, StreamInv, [Next]_allVars
                 PROVE  StreamInv'
      OBVIOUS
    <2>1. ASSUME NEW r \in Request, Beside(r), Streaming(r)'
          PROVE  StreamInv'
      BY <2>1, OthersStream
    <2>2. ASSUME NEW r \in Request,
                 RequestStep(r) \/ \E k \in Kinds, s \in Session : Arrive(r, k, s)
          PROVE  Beside(r) /\ Streaming(r)'
      BY <2>2, HandlingStreams, ManagerStreams, LeavingStreams
      DEF Inv, LifecycleType, RequestStep, Progress
    <2>3. CASE UNCHANGED <<calling, kind, pc, status, code, events>>
      BY <2>3 DEF calling, Streaming, Due, Brings, Offset, EventStream, Ended
    <2>4. CASE Expiry \/ StartUp \/ StartUpFails \/ HotReload \/ SignalStop \/ ShutDown
      BY <2>3, <2>4
      DEF Expiry, Outside, SessionExpires, LockExpires, StartUp, StartUpFails, HotReload, Reload,
          SignalStop, ShutDown, CloseAll, CloseOne, ClearInstances, StopWatcher, Disconnect, vars,
          serviceVars
    <2>5. CASE UNCHANGED allVars
      BY <2>3, <2>5 DEF allVars, vars, serviceVars
    <2>6. CASE \E r \in Request : \/ RequestStep(r)
                                  \/ \E k \in Kinds, s \in Session : Arrive(r, k, s)
      BY <2>6, <2>1, <2>2
    <2> HIDE DEF StreamInv
    <2> QED
      BY <2>4, <2>5, <2>6 DEF Next, RequestEvent
  <1>3. Inv /\ StreamInv => StreamIsWhole
    BY EndIsWhole DEF Inv, LifecycleType, Streaming, StreamIsWhole, Told, EventStream
  <1> QED
    BY <1>1, <1>2, <1>3, AlwaysInv, PTL DEF Spec
=============================================================================
