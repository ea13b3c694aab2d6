---------------------------- MODULE GatewayProofs ----------------------------
(***************************************************************************)
(* What every step of a request keeps true in Gateway: the types, that the *)
(* request and the coroutine that serves it are where they can be together,*)
(* and that what a reply says is so.  From that, every step of a request is*)
(* a step of Exchange or none.  LifecycleProofs draws the conclusions.     *)
(***************************************************************************)
EXTENDS Gateway, TLAPS

(* The labels and outcomes, one by one.                                    *)
LEMMA Labels ==
  /\ "none" \in Calls /\ "lookup" \in Calls /\ "held" \in Calls /\ "run" \in Calls
  /\ "yielded" \in Calls /\ "saving" \in Calls /\ "unwind" \in Calls /\ "orphan" \in Calls /\ "pop" \in Calls
  /\ "del" \in Calls /\ "close" \in Calls /\ "store" \in Calls /\ "install" \in Calls
  /\ "over" \in Calls
  /\ "ok" \in Outcomes /\ "notfound" \in Outcomes /\ "conflict" \in Outcomes
  /\ "timeout" \in Outcomes /\ "error" \in Outcomes
  /\ "idle" \in PcValues /\ "stack" \in PcValues /\ "lookup" \in PcValues
  /\ "resolve" \in PcValues /\ "handler" \in PcValues /\ "respond" \in PcValues
  /\ "raised" \in PcValues /\ "body" \in PcValues /\ "done" \in PcValues
  BY DEF Calls, Outcomes, PcValues, InFlight

(* A domain exception becomes a status that is neither 0 nor 200, and is   *)
(* none of the other outcomes.                                             *)
LEMMA StatusIsNumber ==
  ASSUME NEW how \in DOMAIN StatusOf
  PROVE  StatusOf[how] \in Nat \ {0, 200} /\ how \notin {"ok", "error"}
  BY DEF StatusOf

(* Handlers and bodies of streams keep the types.                          *)
LEMMA HandlingTypes ==
  ASSUME GatewayType, NEW r \in Request, Handling(r)
  PROVE  GatewayType'
  <1> USE DEF Outside, Quiet, calling, redis, memory, Step, End, Goto, Await, Reply, Raise
  <1>1. CASE TurnAway(r)
    <2>0. /\ pc \in [Request -> PcValues]
          /\ status \in [Request -> Nat]
          /\ code \in [Request -> Int]
          /\ target \in [Request -> Session]
          /\ outcome \in [Request -> Outcomes \cup {None}]
      BY DEF GatewayType
    <2>1. /\ pc' \in [Request -> PcValues]
      BY <1>1, <2>0, Labels DEF TurnAway, TurnedAway
    <2>2. /\ status' \in [Request -> Nat]
          /\ code' \in [Request -> Int]
      BY <1>1, <2>0, StatusIsNumber DEF TurnAway, TurnedAway
    <2> QED
      BY <1>1, <2>1, <2>2 DEF GatewayType, TurnAway, TurnedAway
  <1>2. CASE Probe(r)
    BY <1>2, Labels, ServiceAssumption
    DEF GatewayType, Session, Probe
  <1>3. CASE HandleRest(r)
    <2>0. /\ pc \in [Request -> PcValues]
          /\ call \in [Request -> Calls]
          /\ outcome \in [Request -> Outcomes \cup {None}]
          /\ target \in [Request -> Session]
          /\ status \in [Request -> Nat]
      BY DEF GatewayType
    <2>1. /\ pc' \in [Request -> PcValues]
          /\ call' \in [Request -> Calls]
          /\ outcome' \in [Request -> Outcomes \cup {None}]
      BY <1>3, <2>0, Labels DEF HandleRest
    <2> QED
      BY <1>3, <2>1 DEF GatewayType, HandleRest
  <1>4. CASE LookUp(r)
    <2>0. /\ pc \in [Request -> PcValues]
          /\ call \in [Request -> Calls]
          /\ outcome \in [Request -> Outcomes \cup {None}]
          /\ status \in [Request -> Nat]
          /\ code \in [Request -> Int]
          /\ target \in [Request -> Session]
      BY DEF GatewayType
    <2>1. /\ pc' \in [Request -> PcValues]
          /\ call' \in [Request -> Calls]
          /\ outcome' \in [Request -> Outcomes \cup {None}]
      BY <1>4, <2>0, Labels DEF LookUp
    <2>2. /\ status' \in [Request -> Nat]
          /\ code' \in [Request -> Int]
      BY <1>4, <2>0, StatusIsNumber DEF LookUp
    <2> QED
      BY <1>4, <2>1, <2>2 DEF GatewayType, LookUp
  <1>5. CASE HandleA2A(r)
    <2>0. /\ pc \in [Request -> PcValues]
          /\ call \in [Request -> Calls]
          /\ outcome \in [Request -> Outcomes \cup {None}]
          /\ status \in [Request -> Nat]
          /\ code \in [Request -> Int]
          /\ target \in [Request -> Session]
      BY DEF GatewayType
    <2>1. /\ pc' \in [Request -> PcValues]
          /\ call' \in [Request -> Calls]
          /\ outcome' \in [Request -> Outcomes \cup {None}]
      BY <1>5, <2>0, Labels DEF HandleA2A, InvalidRequest, MethodNotFound, InvalidParams
    <2>2. /\ status' \in [Request -> Nat]
          /\ code' \in [Request -> Int]
      BY <1>5, <2>0, StatusIsNumber DEF HandleA2A, InvalidRequest, MethodNotFound, InvalidParams
    <2> QED
      BY <1>5, <2>1, <2>2 DEF GatewayType, HandleA2A, InvalidRequest, MethodNotFound, InvalidParams
  <1>6. CASE Resolve(r)
    <2>0. /\ pc \in [Request -> PcValues]
          /\ call \in [Request -> Calls]
          /\ outcome \in [Request -> Outcomes \cup {None}]
          /\ status \in [Request -> Nat]
          /\ code \in [Request -> Int]
          /\ target \in [Request -> Session]
      BY DEF GatewayType
    <2>1. /\ pc' \in [Request -> PcValues]
          /\ call' \in [Request -> Calls]
          /\ outcome' \in [Request -> Outcomes \cup {None}]
      BY <1>6, <2>0, Labels DEF Resolve, InvalidParams
    <2>2. /\ status' \in [Request -> Nat]
          /\ code' \in [Request -> Int]
      BY <1>6, <2>0, StatusIsNumber DEF Resolve, InvalidParams
    <2> QED
      BY <1>6, <2>1, <2>2 DEF GatewayType, Resolve, InvalidParams
  <1>7. CASE Answer(r)
    <2>0. /\ pc \in [Request -> PcValues]
          /\ status \in [Request -> Nat]
          /\ code \in [Request -> Int]
          /\ target \in [Request -> Session]
          /\ outcome \in [Request -> Outcomes \cup {None}]
      BY DEF GatewayType
    <2>1. /\ pc' \in [Request -> PcValues]
      BY <1>7, <2>0, Labels DEF Answer, Success
    <2>2. /\ status' \in [Request -> Nat]
          /\ code' \in [Request -> Int]
      BY <1>7, <2>0, StatusIsNumber DEF Answer, Success
    <2> QED
      BY <1>7, <2>1, <2>2 DEF GatewayType, Answer, Success
  <1>8. CASE AnswerFirstChunk(r)
    BY <1>8, Labels, ServiceAssumption
    DEF GatewayType, Session, AnswerFirstChunk
  <1>9. CASE Respond(r)
    <2>0. /\ pc \in [Request -> PcValues]
          /\ call \in [Request -> Calls]
          /\ active \in Int
          /\ recorded \in [Request -> Nat]
          /\ target \in [Request -> Session]
          /\ outcome \in [Request -> Outcomes \cup {None}]
          /\ status \in [Request -> Nat]
      BY DEF GatewayType
    <2>1. /\ pc' \in [Request -> PcValues]
          /\ call' \in [Request -> Calls]
      BY <1>9, <2>0, Labels DEF Respond, GaugeDrops, Record
    <2>2. /\ active' \in Int
          /\ recorded' \in [Request -> Nat]
      BY <1>9, <2>0 DEF Respond, GaugeDrops, Record
    <2> QED
      BY <1>9, <2>1, <2>2 DEF GatewayType, Respond, GaugeDrops, Record
  <1>10. CASE Escape(r)
    BY <1>10, Labels, ServiceAssumption
    DEF GatewayType, Session, Escape, GaugeDrops, Record, serviceVars
  <1>11. CASE SendWorking(r)
    BY <1>11, Labels, ServiceAssumption
    DEF GatewayType, Session, SendWorking, Emit, Working, Done, serviceVars
  <1>12. CASE SendChunk(r)
    BY <1>12, Labels, ServiceAssumption
    DEF GatewayType, Session, SendChunk, Emit, SendPending, SendEachChunk, Done
  <1>13. CASE EndBody(r)
    <2>0. /\ pc \in [Request -> PcValues]
          /\ events \in [Request -> Seq(Done..MaxChunks)]
          /\ target \in [Request -> Session]
          /\ outcome \in [Request -> Outcomes \cup {None}]
          /\ status \in [Request -> Nat]
      BY DEF GatewayType
    <2>9. Append(events[r], Done) \in Seq(Done..MaxChunks)
      BY <2>0, ServiceAssumption DEF Done
    <2>1. events' \in [Request -> Seq(Done..MaxChunks)]
      BY <1>13, <2>0, <2>9 DEF EndBody, Emit
    <2> QED
      BY <1>13, <2>1, Labels DEF GatewayType, EndBody, serviceVars
  <1> QED
    BY <1>1, <1>2, <1>3, <1>4, <1>5, <1>6, <1>7, <1>8, <1>9, <1>10, <1>11, <1>12, <1>13
    DEF Handling

(* So does the manager, up to a run and after it,                          *)
LEMMA ServingTypes ==
  ASSUME GatewayType, NEW r \in Request, Serving(r), Outside
  PROVE  GatewayType'
  <1> USE DEF Outside, Quiet, calling, redis, memory, Step, End, Goto, Await, Reply, Raise
  <1>1. CASE Enter(r)
    <2>0. /\ call \in [Request -> Calls]
          /\ outcome \in [Request -> Outcomes \cup {None}]
          /\ lock \in [Session -> Request \cup {None}]
          /\ target \in [Request -> Session]
          /\ status \in [Request -> Nat]
      BY DEF GatewayType
    <2>1. /\ call' \in [Request -> Calls]
          /\ outcome' \in [Request -> Outcomes \cup {None}]
      BY <1>1, <2>0, Labels DEF Enter, Own
    <2>2. /\ lock' \in [Session -> Request \cup {None}]
      BY <1>1, <2>0 DEF Enter, Own
    <2> QED
      BY <1>1, <2>1, <2>2 DEF GatewayType, Enter, Own
  <1>2. CASE Attach(r)
    <2>0. /\ call \in [Request -> Calls]
          /\ outcome \in [Request -> Outcomes \cup {None}]
          /\ instances \in [Session -> Request \cup {None}]
          /\ built \in SUBSET Request
          /\ target \in [Request -> Session]
          /\ status \in [Request -> Nat]
      BY DEF GatewayType
    <2>1. /\ call' \in [Request -> Calls]
          /\ outcome' \in [Request -> Outcomes \cup {None}]
      BY <1>2, <2>0, Labels DEF Attach, Build
    <2>2. /\ instances' \in [Session -> Request \cup {None}]
          /\ built' \in SUBSET Request
      BY <1>2, <2>0 DEF Attach, Build
    <2> QED
      BY <1>2, <2>1, <2>2 DEF GatewayType, Attach, Build
  <1>3. CASE TimeOut(r)
    BY <1>3, Labels, ServiceAssumption
    DEF GatewayType, Session, TimeOut, RunTimesOut
  <1>4. CASE Release(r)
    <2>0. /\ call \in [Request -> Calls]
          /\ outcome \in [Request -> Outcomes \cup {None}]
          /\ lock \in [Session -> Request \cup {None}]
          /\ target \in [Request -> Session]
          /\ status \in [Request -> Nat]
      BY DEF GatewayType
    <2>1. /\ call' \in [Request -> Calls]
          /\ outcome' \in [Request -> Outcomes \cup {None}]
      BY <1>4, <2>0, Labels DEF Release, Freed
    <2>2. /\ lock' \in [Session -> Request \cup {None}]
      BY <1>4, <2>0 DEF Release, Freed
    <2> QED
      BY <1>4, <2>1, <2>2 DEF GatewayType, Release, Freed
  <1>5. CASE Finalize(r)
    BY <1>5, Labels, ServiceAssumption
    DEF GatewayType, Session, Finalize, Freed
  <1>6. CASE PopInstance(r)
    BY <1>6, Labels, ServiceAssumption
    DEF GatewayType, Session, PopInstance
  <1>7. CASE DeleteKey(r)
    <2>0. /\ call \in [Request -> Calls]
          /\ outcome \in [Request -> Outcomes \cup {None}]
          /\ stored \in SUBSET Session
          /\ target \in [Request -> Session]
          /\ status \in [Request -> Nat]
      BY DEF GatewayType
    <2>1. /\ call' \in [Request -> Calls]
          /\ outcome' \in [Request -> Outcomes \cup {None}]
      BY <1>7, <2>0, Labels DEF DeleteKey
    <2>2. /\ stored' \in SUBSET Session
      BY <1>7, <2>0 DEF DeleteKey
    <2> QED
      BY <1>7, <2>1, <2>2 DEF GatewayType, DeleteKey
  <1>8. CASE CloseInstance(r)
    BY <1>8, Labels, ServiceAssumption
    DEF GatewayType, Session, CloseInstance, ToClose
  <1>9. CASE StoreRecord(r)
    <2>0. /\ call \in [Request -> Calls]
          /\ outcome \in [Request -> Outcomes \cup {None}]
          /\ stored \in SUBSET Session
          /\ target \in [Request -> Session]
          /\ status \in [Request -> Nat]
      BY DEF GatewayType
    <2>1. /\ call' \in [Request -> Calls]
          /\ outcome' \in [Request -> Outcomes \cup {None}]
      BY <1>9, <2>0, Labels DEF StoreRecord
    <2>2. /\ stored' \in SUBSET Session
      BY <1>9, <2>0 DEF StoreRecord
    <2> QED
      BY <1>9, <2>1, <2>2 DEF GatewayType, StoreRecord
  <1>10. CASE InstallInstance(r)
    <2>0. /\ call \in [Request -> Calls]
          /\ outcome \in [Request -> Outcomes \cup {None}]
          /\ instances \in [Session -> Request \cup {None}]
          /\ built \in SUBSET Request
          /\ target \in [Request -> Session]
          /\ status \in [Request -> Nat]
      BY DEF GatewayType
    <2>1. /\ call' \in [Request -> Calls]
          /\ outcome' \in [Request -> Outcomes \cup {None}]
      BY <1>10, <2>0, Labels DEF InstallInstance, Build
    <2>2. /\ instances' \in [Session -> Request \cup {None}]
          /\ built' \in SUBSET Request
      BY <1>10, <2>0 DEF InstallInstance, Build
    <2> QED
      BY <1>10, <2>1, <2>2 DEF GatewayType, InstallInstance, Build
  <1>11. CASE SaveWrite(r)
    <2>0. /\ call \in [Request -> Calls]
          /\ outcome \in [Request -> Outcomes \cup {None}]
          /\ stored \in SUBSET Session
          /\ saved \in SUBSET Request
          /\ target \in [Request -> Session]
      BY DEF GatewayType
    <2>1. /\ call' \in [Request -> Calls]
          /\ outcome' \in [Request -> Outcomes \cup {None}]
      BY <1>11, <2>0, Labels DEF SaveWrite
    <2>2. stored' \in SUBSET Session /\ saved' \in SUBSET Request
      BY <1>11, <2>0 DEF SaveWrite
    <2> QED
      BY <1>11, <2>1, <2>2 DEF GatewayType, SaveWrite
  <1> QED
    BY <1>1, <1>2, <1>3, <1>4, <1>5, <1>6, <1>7, <1>8, <1>9, <1>10, <1>11
    DEF Serving

(* in a run,                                                               *)
LEMMA RunningTypes ==
  ASSUME GatewayType, NEW r \in Request, Yield(r) \/ RunEnds(r), Outside
  PROVE  GatewayType'
  <1> USE DEF Outside, Quiet, calling, redis, memory, Step, End, Goto, Await, Reply, Raise
  <1>1. CASE Yield(r)
    BY <1>1, Labels, ServiceAssumption
    DEF GatewayType, Session, Yield
  <1>2. CASE RunEnds(r)
    <2>0. /\ call \in [Request -> Calls]
          /\ outcome \in [Request -> Outcomes \cup {None}]
          /\ target \in [Request -> Session]
      BY DEF GatewayType
    <2>1. /\ call' \in [Request -> Calls]
          /\ outcome' \in [Request -> Outcomes \cup {None}]
      BY <1>2, <2>0, Labels DEF RunEnds
    <2> QED
      BY <1>2, <2>1 DEF GatewayType, RunEnds
  <1> QED
    BY <1>1, <1>2

(* and whoever leaves a stream.                                            *)
LEMMA LeavingTypes ==
  ASSUME GatewayType, NEW r \in Request, TimesOutElsewhere(r) \/ HangUp(r)
  PROVE  GatewayType'
  <1> USE DEF Outside, Quiet, calling, redis, memory, Step, End, Goto, Await, Reply, Raise
  <1>1. CASE TimesOutElsewhere(r)
    <2>0. /\ pc \in [Request -> PcValues]
          /\ call \in [Request -> Calls]
          /\ target \in [Request -> Session]
          /\ outcome \in [Request -> Outcomes \cup {None}]
          /\ status \in [Request -> Nat]
      BY DEF GatewayType
    <2>1. /\ pc' \in [Request -> PcValues]
          /\ call' \in [Request -> Calls]
      BY <1>1, <2>0, Labels DEF TimesOutElsewhere, Left
    <2> QED
      BY <1>1, <2>1 DEF GatewayType, TimesOutElsewhere, Left
  <1>2. CASE HangUp(r)
    BY <1>2, Labels, ServiceAssumption
    DEF GatewayType, Session, HangUp, Left
  <1> QED
    BY <1>1, <1>2

(* A request comes in.                                                     *)
LEMMA ArriveTypes ==
  ASSUME GatewayType, NEW r \in Request, NEW k \in Kinds, NEW s \in Session, Arrive(r, k, s)
  PROVE  GatewayType'
  BY Labels DEF GatewayType, Arrive, Goto, GaugeRises, redis, memory

(* Something expires.                                                      *)
LEMMA ExpiryTypes ==
  ASSUME GatewayType, Expiry
  PROVE  GatewayType'
  BY DEF GatewayType, Expiry, Outside, SessionExpires, LockExpires, calling, memory
-----------------------------------------------------------------------------
(* Before the manager can have been asked for a message.                   *)
Early == {"idle", "stack", "lookup", "resolve"}
InLock == {"held", "run", "yielded", "saving"}
OfMessage == InLock \cup {"lookup", "unwind", "over"}

(* Where the coroutine of the manager can be while its request is here.    *)
Together(q) ==
  /\ pc[q] \in {"idle", "stack", "lookup"} => call[q] = "none"
  /\ pc[q] = "lookup" => kind[q] \in {"send", "stream", "delete"}
  /\ pc[q] = "resolve" => kind[q] \in A2A /\ call[q] \in {"store", "install", "over"}
  /\ pc[q] = "handler" => kind[q] # "stream" /\ (kind[q] \in Messages => call[q] \in OfMessage)
  /\ pc[q] = "respond" => call[q] \in {"none", "over", "yielded"}
  /\ pc[q] = "body" => kind[q] \in Streams /\ call[q] \in OfMessage /\ EventStream(q)
  /\ pc[q] \in {"raised", "done"} => call[q] \in {"none", "over", "orphan"}
  /\ call[q] = "yielded" => kind[q] \in Streams

(* Whoever is past acquire and not yet at release holds the lock; whoever  *)
(* holds it, holds that of the session it is about.                        *)
Locks(q) ==
  /\ call[q] \in InLock => lock[target[q]] = q
  /\ \A s \in Session : lock[s] = q => s = target[q] /\ pc[q] \notin Early

(* A message is saved at the end of a run that has not failed before.      *)
Saves(q) ==
  /\ q \in saved => /\ pc[q] \notin Early
                    /\ call[q] \in {"unwind", "orphan", "over"}
                    /\ call[q] # "orphan" => outcome[q] \in {"ok", "error"}
  /\ call[q] = "unwind" /\ outcome[q] = "ok" => q \in saved

Complete(q) == q \in saved /\ \A s \in Session : lock[s] # q

(* What a reply on its way says is true.                                   *)
Replies(q) ==
  /\ /\ kind[q] \in Messages
     /\ pc[q] \in {"handler", "respond", "body"}
     /\ call[q] = "over"
     /\ outcome[q] = "ok"
     => Complete(q)
  /\ pc[q] = "respond" /\ status[q] = 200 /\ code[q] = 0 /\ kind[q] \in {"send", "a2aSend"}
     => call[q] = "over" /\ outcome[q] = "ok"
  /\ pc[q] = "respond" /\ status[q] = 200 /\ code[q] = 0 /\ kind[q] = "a2aStream"
     => call[q] \in {"over", "yielded"}
  /\ pc[q] = "respond" /\ call[q] = "yielded" => EventStream(q)
  /\ pc[q] = "respond" /\ kind[q] \in Messages /\ (status[q] # 200 \/ code[q] # 0)
     => q \notin saved
  /\ pc[q] = "respond" /\ kind[q] = "stream" => call[q] = "none"
  /\ pc[q] # "done" => events[q] \in Seq(Nat)

(* The invariant, request by request.                                      *)
Sound(q) == Together(q) /\ Locks(q) /\ Saves(q) /\ Replies(q)
SoundInv == \A q \in Request : Sound(q)

(* A step of r: nothing of another request changes, nor the lock it holds. *)
Only(r) ==
  \A q \in Request \ {r} :
    /\ target'[q] = target[q] /\ call'[q] = call[q] /\ outcome'[q] = outcome[q]
    /\ kind'[q] = kind[q] /\ pc'[q] = pc[q] /\ status'[q] = status[q]
    /\ code'[q] = code[q] /\ events'[q] = events[q]
    /\ q \in saved' <=> q \in saved
    /\ \A s \in Session : lock'[s] = q <=> lock[s] = q

(* Then another request stays sound.                                       *)
LEMMA OthersSound ==
  ASSUME GatewayType, NEW r \in Request, Only(r), NEW q \in Request \ {r}, Sound(q)
  PROVE  Sound(q)'
  <1>0. target[q] \in Session
    BY DEF GatewayType
  <1>1. Together(q)'
    BY DEF Sound, Together, Only, EventStream
  <1>2. Locks(q)'
    BY <1>0 DEF Sound, Locks, Only
  <1>3. Saves(q)'
    BY DEF Sound, Saves, Only
  <1>4. Replies(q)'
    BY DEF Sound, Replies, Only, EventStream, Complete
  <1> QED
    BY <1>1, <1>2, <1>3, <1>4 DEF Sound

(* Handlers and bodies keep their request sound,                           *)
LEMMA HandlingSound ==
  ASSUME GatewayType, SoundInv, NEW r \in Request, Handling(r)
  PROVE  Only(r) /\ Sound(r)'
  <1> DEFINE Types ==
        /\ target \in [Request -> Session] /\ lock \in [Session -> Request \cup {None}]
        /\ call \in [Request -> Calls] /\ outcome \in [Request -> Outcomes \cup {None}]
        /\ pc \in [Request -> PcValues] /\ kind \in [Request -> Kinds \cup {None}]
        /\ status \in [Request -> Nat] /\ code \in [Request -> Int]
        /\ events \in [Request -> Seq(Done..MaxChunks)] /\ produced \in [Request -> 0..MaxChunks]
  <1>0. Types /\ Sound(r) /\ None \notin Request
    BY ServiceAssumption DEF SoundInv, GatewayType
  <1> USE DEF Outside, Quiet, calling, redis, memory, Step, End, Goto, Await, Reply, Raise,
        Sound, Together, Locks, Saves, Replies, Complete, Early, InLock, OfMessage,
        Streams, Messages, A2A, Rest, EventStream
  <1>1. CASE TurnAway(r)
    BY <1>1, <1>0 DEF Only, TurnAway, TurnedAway
  <1>2. CASE Probe(r)
    BY <1>2, <1>0 DEF Only, Probe
  <1>3. CASE HandleRest(r)
    BY <1>3, <1>0 DEF Only, HandleRest
  <1>4. CASE LookUp(r)
    BY <1>4, <1>0 DEF Only, LookUp
  <1>5. CASE HandleA2A(r)
    BY <1>5, <1>0 DEF Only, HandleA2A, InvalidRequest, MethodNotFound, InvalidParams
  <1>6. CASE Resolve(r)
    <2>1. Only(r)
      BY <1>6, <1>0 DEF Only, Resolve, InvalidParams
    <2>2. Together(r)' /\ Locks(r)'
      BY <1>6, <1>0 DEF Resolve, InvalidParams
    <2>3. Saves(r)'
      BY <1>6, <1>0 DEF Resolve, InvalidParams
    <2>7. Replies(r)'
      BY <1>6, <1>0, StatusIsNumber DEF Resolve, InvalidParams
    <2> QED
      BY <2>1, <2>2, <2>3, <2>7
  <1>7. CASE Answer(r)
    <2>1. Only(r)
      BY <1>7, <1>0 DEF Only, Answer, Success
    <2>2. Together(r)' /\ Locks(r)'
      BY <1>7, <1>0 DEF Answer, Success
    <2>3. Saves(r)'
      BY <1>7, <1>0 DEF Answer, Success
    <2>7. Replies(r)'
      BY <1>7, <1>0, StatusIsNumber DEF Answer, Success
    <2> QED
      BY <2>1, <2>2, <2>3, <2>7
  <1>8. CASE AnswerFirstChunk(r)
    BY <1>8, <1>0 DEF Only, AnswerFirstChunk
  <1>9. CASE Respond(r)
    BY <1>9, <1>0 DEF Only, Respond, GaugeDrops, Record
  <1>10. CASE Escape(r)
    BY <1>10, <1>0 DEF Only, Escape, GaugeDrops, Record, serviceVars
  <1>11. CASE SendWorking(r)
    BY <1>11, <1>0 DEF Only, SendWorking, Emit, Working, Done, serviceVars
  <1>12. CASE SendChunk(r)
    BY <1>12, <1>0 DEF Only, SendChunk, Emit, SendPending, SendEachChunk, Done
  <1>13. CASE EndBody(r)
    BY <1>13, <1>0 DEF Only, EndBody, Emit, Done, serviceVars
  <1> QED
    BY <1>1, <1>2, <1>3, <1>4, <1>5, <1>6, <1>7, <1>8, <1>9, <1>10, <1>11, <1>12, <1>13
    DEF Handling

(* and so does the manager, before and after a run,                        *)
LEMMA ServingSound ==
  ASSUME GatewayType, SoundInv, NEW r \in Request, Serving(r), Outside
  PROVE  Only(r) /\ Sound(r)'
  <1> DEFINE Types ==
        /\ target \in [Request -> Session] /\ lock \in [Session -> Request \cup {None}]
        /\ call \in [Request -> Calls] /\ outcome \in [Request -> Outcomes \cup {None}]
        /\ pc \in [Request -> PcValues] /\ kind \in [Request -> Kinds \cup {None}]
        /\ status \in [Request -> Nat] /\ code \in [Request -> Int]
        /\ events \in [Request -> Seq(Done..MaxChunks)] /\ produced \in [Request -> 0..MaxChunks]
  <1>0. Types /\ Sound(r) /\ None \notin Request
    BY ServiceAssumption DEF SoundInv, GatewayType
  <1> USE DEF Outside, Quiet, calling, redis, memory, Step, End, Goto, Await, Reply, Raise,
        Sound, Together, Locks, Saves, Replies, Complete, Early, InLock, OfMessage,
        Streams, Messages, A2A, Rest, EventStream
  <1>1. CASE Enter(r)
    BY <1>1, <1>0 DEF Only, Enter, Own
  <1>2. CASE Attach(r)
    BY <1>2, <1>0 DEF Only, Attach, Build
  <1>3. CASE TimeOut(r)
    BY <1>3, <1>0 DEF Only, TimeOut, RunTimesOut
  <1>4. CASE Release(r)
    <2>1. Only(r)
      BY <1>4, <1>0 DEF Only, Release, Freed
    <2>2. Together(r)' /\ Locks(r)'
      BY <1>4, <1>0 DEF Release, Freed
    <2>3. Saves(r)'
      BY <1>4, <1>0 DEF Release, Freed
    <2>4. outcome'[r] = "ok" => r \in saved
      BY <1>4, <1>0 DEF Release, Freed
    <2>5. outcome'[r] = "ok" => lock' = Freed(r)
      BY <1>4, <1>0 DEF Release
    <2>6. outcome'[r] = "ok" => \A s \in Session : lock'[s] # r
      BY <1>0, <2>5 DEF Freed
    <2>7. Replies(r)'
      BY <1>4, <1>0, <2>4, <2>6 DEF Release, Freed
    <2> QED
      BY <2>1, <2>2, <2>3, <2>7
  <1>5. CASE Finalize(r)
    BY <1>5, <1>0 DEF Only, Finalize, Freed
  <1>6. CASE PopInstance(r)
    BY <1>6, <1>0 DEF Only, PopInstance
  <1>7. CASE DeleteKey(r)
    BY <1>7, <1>0 DEF Only, DeleteKey
  <1>8. CASE CloseInstance(r)
    BY <1>8, <1>0 DEF Only, CloseInstance, ToClose
  <1>9. CASE StoreRecord(r)
    BY <1>9, <1>0 DEF Only, StoreRecord
  <1>10. CASE InstallInstance(r)
    BY <1>10, <1>0 DEF Only, InstallInstance, Build
  <1>11. CASE SaveWrite(r)
    BY <1>11, <1>0 DEF Only, SaveWrite
  <1> QED
    BY <1>1, <1>2, <1>3, <1>4, <1>5, <1>6, <1>7, <1>8, <1>9, <1>10, <1>11
    DEF Serving

(* in a run,                                                               *)
LEMMA RunningSound ==
  ASSUME GatewayType, SoundInv, NEW r \in Request, (Yield(r) /\ kind[r] \in Streams) \/ RunEnds(r),
         Outside
  PROVE  Only(r) /\ Sound(r)'
  <1> DEFINE Types ==
        /\ target \in [Request -> Session] /\ lock \in [Session -> Request \cup {None}]
        /\ call \in [Request -> Calls] /\ outcome \in [Request -> Outcomes \cup {None}]
        /\ pc \in [Request -> PcValues] /\ kind \in [Request -> Kinds \cup {None}]
        /\ status \in [Request -> Nat] /\ code \in [Request -> Int]
        /\ events \in [Request -> Seq(Done..MaxChunks)] /\ produced \in [Request -> 0..MaxChunks]
  <1>0. Types /\ Sound(r) /\ None \notin Request
    BY ServiceAssumption DEF SoundInv, GatewayType
  <1> USE DEF Outside, Quiet, calling, redis, memory, Step, End, Goto, Await, Reply, Raise,
        Sound, Together, Locks, Saves, Replies, Complete, Early, InLock, OfMessage,
        Streams, Messages, A2A, Rest, EventStream
  <1>1. CASE Yield(r) /\ kind[r] \in Streams
    BY <1>1, <1>0 DEF Only, Yield
  <1>2. CASE RunEnds(r)
    BY <1>2, <1>0 DEF Only, RunEnds
  <1> QED
    BY <1>1, <1>2

(* and whoever leaves a stream.                                            *)
LEMMA LeavingSound ==
  ASSUME GatewayType, SoundInv, NEW r \in Request, TimesOutElsewhere(r) \/ HangUp(r)
  PROVE  Only(r) /\ Sound(r)'
  <1> DEFINE Types ==
        /\ target \in [Request -> Session] /\ lock \in [Session -> Request \cup {None}]
        /\ call \in [Request -> Calls] /\ outcome \in [Request -> Outcomes \cup {None}]
        /\ pc \in [Request -> PcValues] /\ kind \in [Request -> Kinds \cup {None}]
        /\ status \in [Request -> Nat] /\ code \in [Request -> Int]
        /\ events \in [Request -> Seq(Done..MaxChunks)] /\ produced \in [Request -> 0..MaxChunks]
  <1>0. Types /\ Sound(r) /\ None \notin Request
    BY ServiceAssumption DEF SoundInv, GatewayType
  <1> USE DEF Outside, Quiet, calling, redis, memory, Step, End, Goto, Await, Reply, Raise,
        Sound, Together, Locks, Saves, Replies, Complete, Early, InLock, OfMessage,
        Streams, Messages, A2A, Rest, EventStream
  <1>1. CASE TimesOutElsewhere(r)
    BY <1>1, <1>0 DEF Only, TimesOutElsewhere, Left
  <1>2. CASE HangUp(r)
    BY <1>2, <1>0 DEF Only, HangUp, Left
  <1> QED
    BY <1>1, <1>2

(* A request comes in.                                                     *)
LEMMA ArriveSound ==
  ASSUME GatewayType, SoundInv, NEW r \in Request, NEW k \in Kinds, NEW s \in Session, Arrive(r, k, s)
  PROVE  Only(r) /\ Sound(r)'
  <1>0. /\ target \in [Request -> Session] /\ call \in [Request -> Calls]
        /\ pc \in [Request -> PcValues] /\ kind \in [Request -> Kinds \cup {None}]
        /\ Sound(r)
    BY DEF SoundInv, GatewayType
  <1>1. Only(r)
    BY <1>0 DEF Only, Arrive, Goto, redis
  <1>2. pc[r] = "idle" /\ pc'[r] = "stack" /\ call'[r] = "none" /\ call[r] = "none"
    BY <1>0 DEF Arrive, Goto, Sound, Together
  <1>3. Together(r)' /\ Locks(r)' /\ Saves(r)' /\ Replies(r)'
    BY <1>0, <1>2 DEF Arrive, redis, Sound, Together, Locks, Saves, Replies, Complete, Early, InLock
  <1> QED
    BY <1>1, <1>3 DEF Sound

(* Something expires: only a lock that its holder has no more use for.     *)
LEMMA ExpirySound ==
  ASSUME GatewayType, SoundInv, Expiry
  PROVE  SoundInv'
  <1> SUFFICES ASSUME NEW q \in Request
               PROVE  Sound(q)'
    BY DEF SoundInv
  <1>0. Sound(q) /\ target[q] \in Session /\ lock \in [Session -> Request \cup {None}]
        /\ None \notin Request
    BY ServiceAssumption DEF SoundInv, GatewayType
  <1>1. /\ UNCHANGED <<calling, saved, kind, pc, status, code, events>>
        /\ \A s \in Session : lock'[s] # lock[s] =>
             lock'[s] = None /\ call[lock[s]] \in {"unwind", "over", "orphan"}
    BY <1>0 DEF Expiry, Outside, SessionExpires, LockExpires, calling
  <1>2. Together(q)'
    BY <1>0, <1>1 DEF Sound, Together, EventStream, calling
  <1>3. Locks(q)'
    BY <1>0, <1>1 DEF Sound, Locks, InLock, calling
  <1>4. Saves(q)'
    BY <1>0, <1>1 DEF Sound, Saves, calling
  <1>5. Replies(q)'
    BY <1>0, <1>1 DEF Sound, Replies, Complete, EventStream, calling
  <1> QED
    BY <1>2, <1>3, <1>4, <1>5 DEF Sound

(* Nobody is sound by accident: what holds of r and leaves the others      *)
(* alone, holds of all.                                                    *)
LEMMA SoundForAll ==
  ASSUME GatewayType, SoundInv, NEW r \in Request, Only(r), Sound(r)'
  PROVE  SoundInv'
  <1> SUFFICES ASSUME NEW q \in Request
               PROVE  Sound(q)'
    BY DEF SoundInv
  <1>1. CASE q = r
    BY <1>1
  <1>2. CASE q # r
    BY <1>2, OthersSound DEF SoundInv
  <1> QED
    BY <1>1, <1>2

(* All that a process does about its requests keeps types and soundness.   *)
LEMMA RequestKeeps ==
  ASSUME GatewayType, SoundInv,
         \/ \E r \in Request, k \in Kinds, s \in Session : Arrive(r, k, s)
         \/ \E r \in Request : RequestStep(r)
         \/ Expiry
  PROVE  GatewayType' /\ SoundInv'
  <1>1. CASE Expiry
    BY <1>1, ExpiryTypes, ExpirySound
  <1>2. ASSUME NEW r \in Request, NEW k \in Kinds, NEW s \in Session, Arrive(r, k, s)
        PROVE  GatewayType' /\ SoundInv'
    BY <1>2, ArriveTypes, ArriveSound, SoundForAll
  <1>3. ASSUME NEW r \in Request, RequestStep(r)
        PROVE  GatewayType' /\ SoundInv'
    <2>1. CASE Handling(r)
      BY <2>1, HandlingTypes, HandlingSound, SoundForAll
    <2>2. CASE Serving(r) /\ Outside
      BY <2>2, ServingTypes, ServingSound, SoundForAll
    <2>3. CASE Running(r) /\ Outside
      <3>1. (Yield(r) \/ RunEnds(r)) /\ ((Yield(r) /\ kind[r] \in Streams) \/ RunEnds(r)) /\ Outside
        BY <2>3 DEF Running
      <3>2. GatewayType'
        BY <3>1, RunningTypes
      <3>3. Only(r) /\ Sound(r)'
        BY <3>1, RunningSound
      <3> QED
        BY <3>2, <3>3, SoundForAll
    <2>4. CASE TimesOutElsewhere(r) \/ HangUp(r)
      BY <2>4, LeavingTypes, LeavingSound, SoundForAll
    <2> QED
      BY <1>3, <2>1, <2>2, <2>3, <2>4 DEF RequestStep, Progress
  <1> QED
    BY <1>1, <1>2, <1>3
-----------------------------------------------------------------------------
(* A client is told nothing before its request is over.                    *)
LEMMA NotYetTold ==
  ASSUME NEW r \in Request, pc[r] # "done"
  PROVE  Told(r) = "none"
  BY DEF Told

(* What another request has been told does not change.                     *)
LEMMA OthersTold ==
  ASSUME NEW r \in Request, Only(r), NEW q \in Request \ {r}
  PROVE  Told(q)' = Told(q)
  BY DEF Told, Ended, EventStream, Only

(* Neither lock, nor messages kept, nor answers: a stutter.                *)
LEMMA SilentRefines ==
  ASSUME UNCHANGED <<lock, saved>>, \A q \in Request : Told(q)' = Told(q)
  PROVE  UNCHANGED Promise!vars
  BY DEF Promise!vars

(* One client is told something true.                                      *)
LEMMA TellRefines ==
  ASSUME NEW r \in Request, Only(r), UNCHANGED <<lock, saved>>, Told(r) = "none",
         Told(r)' \in {"none", "success", "refusal", "failure"},
         Told(r)' = "success" => Complete(r),
         Told(r)' = "refusal" => r \notin saved
  PROVE  [Promise!Next]_Promise!vars
  <1>1. \A q \in Request \ {r} : Told(q)' = Told(q)
    BY OthersTold
  <1>2. CASE Told(r)' = "none"
    BY <1>1, <1>2, SilentRefines
  <1>3. CASE Told(r)' # "none"
    <2>1. PICK told \in {"success", "refusal", "failure"} : Told(r)' = told
      BY <1>3
    <2>2. [q \in Request |-> Told(q)]' = [[q \in Request |-> Told(q)] EXCEPT ![r] = told]
      BY <1>1, <2>1
    <2>3. Promise!Tell(r, told)
      BY <2>1, <2>2 DEF Promise!Tell, Complete
    <2> QED
      BY <2>3 DEF Promise!Next
  <1> QED
    BY <1>2, <1>3

(* Of a request: a step of it that is not its last one tells nobody.       *)
LEMMA SameTold ==
  ASSUME NEW r \in Request, Only(r), Told(r)' = Told(r)
  PROVE  \A q \in Request : Told(q)' = Told(q)
  BY OthersTold

(* The handlers answer truly.                                              *)
LEMMA HandlingRefines ==
  ASSUME GatewayType, SoundInv, NEW r \in Request, Handling(r)
  PROVE  [Promise!Next]_Promise!vars
  <1>0. Only(r) /\ Sound(r) /\ UNCHANGED <<lock, saved>>
    BY HandlingSound
    DEF SoundInv, Handling, TurnAway, Probe, HandleRest, LookUp, HandleA2A, Resolve, Answer,
        AnswerFirstChunk, Respond, Escape, SendWorking, SendChunk, EndBody, Quiet, redis, serviceVars
  <1>1. pc \in [Request -> PcValues] /\ call \in [Request -> Calls]
        /\ status \in [Request -> Nat] /\ events \in [Request -> Seq(Done..MaxChunks)]
    BY DEF GatewayType
  <1>2. pc[r] # "done" /\ Told(r) = "none"
    <2>1. pc[r] # "done"
      BY <1>0 DEF Handling, TurnAway, Probe, HandleRest, LookUp, HandleA2A, Resolve, Answer,
        AnswerFirstChunk, Respond, Escape, SendWorking, SendChunk, EndBody
    <2> QED
      BY <2>1, NotYetTold
  <1>3. CASE Respond(r)
    <2>1. /\ status' = status /\ code' = code /\ kind' = kind /\ events' = events
          /\ pc[r] = "respond"
          /\ pc'[r] = IF EventStream(r) THEN "body" ELSE "done"
      BY <1>1, <1>3 DEF Respond, Goto
    <2>2. Told(r)' = "success" => Complete(r)
      BY <1>0, <2>1 DEF Told, EventStream, Sound, Replies, Messages, Streams
    <2>3. Told(r)' = "refusal" => r \notin saved
      BY <1>0, <2>1 DEF Told, EventStream, Sound, Replies, Messages, Streams
    <2>4. Told(r)' \in {"none", "success", "refusal", "failure"}
      BY DEF Told
    <2> QED
      BY <1>0, <1>2, <2>2, <2>3, <2>4, TellRefines
  <1>4. CASE Escape(r)
    <2>1. status'[r] = 500
      BY <1>1, <1>4 DEF Escape
    <2>2. Told(r)' \in {"none", "failure"}
      BY <2>1 DEF Told
    <2> QED
      BY <1>0, <1>2, <2>2, TellRefines
  <1>5. CASE EndBody(r)
    <2>1. /\ status' = status /\ code' = code /\ kind' = kind
          /\ EventStream(r) /\ kind[r] \in Messages /\ call[r] = "over"
          /\ outcome[r] # "ok" => events' = events
      BY <1>0, <1>5 DEF EndBody, Sound, Together, Streams, Messages
    <2>2. Told(r)' = "success" => Complete(r)
      <3>1. CASE outcome[r] = "ok"
        BY <1>0, <1>5, <2>1, <3>1 DEF EndBody, Sound, Replies
      <3>2. CASE outcome[r] # "ok"
        <4>1. ~Ended(r)
          BY <1>0, <1>1, <1>2 DEF Sound, Replies, Ended, Done
        <4> QED
          BY <2>1, <3>2, <4>1 DEF Told, Ended, EventStream
      <3> QED
        BY <3>1, <3>2
    <2>3. Told(r)' \in {"none", "success", "failure"}
      BY <2>1 DEF Told, EventStream
    <2> QED
      BY <1>0, <1>2, <2>2, <2>3, TellRefines
  <1>6. CASE pc'[r] # "done"
    <2>1. Told(r)' = "none"
      BY <1>6 DEF Told
    <2> QED
      BY <1>0, <1>2, <2>1, TellRefines
  <1> QED
    BY <1>1, <1>3, <1>4, <1>5, <1>6
    DEF Handling, TurnAway, Probe, HandleRest, LookUp, HandleA2A, Resolve, Answer,
        AnswerFirstChunk, SendWorking, SendChunk, Goto, Await, Reply, Raise

(* Nobody who leaves a stream has been told that it went well.             *)
LEMMA LeavingRefines ==
  ASSUME GatewayType, SoundInv, NEW r \in Request, TimesOutElsewhere(r) \/ HangUp(r)
  PROVE  [Promise!Next]_Promise!vars
  <1>0. Only(r) /\ Sound(r) /\ UNCHANGED <<lock, saved, kind, status, code, events>>
    BY LeavingSound DEF SoundInv, TimesOutElsewhere, HangUp, redis
  <1>1. events \in [Request -> Seq(Done..MaxChunks)] /\ pc \in [Request -> PcValues]
    BY DEF GatewayType
  <1>2. pc[r] # "done" /\ Told(r) = "none"
    BY <1>0, NotYetTold DEF TimesOutElsewhere, HangUp, Sound, Together
  <1>3. ~Ended(r)
    BY <1>0, <1>1, <1>2 DEF Sound, Replies, Ended, Done
  <1>4. Told(r)' \in {"none", "failure"}
    <2>1. CASE pc[r] = "body"
      BY <1>0, <1>3, <2>1 DEF Told, Ended, EventStream, Sound, Together
    <2>2. CASE pc[r] # "body"
      BY <1>1, <2>2 DEF Told, TimesOutElsewhere, HangUp, Goto
    <2> QED
      BY <2>1, <2>2
  <1> QED
    BY <1>0, <1>2, <1>4, TellRefines

(* The manager takes a free lock only, saves only inside it, and not for a *)
(* client that has been answered.                                          *)
LEMMA ManagerRefines ==
  ASSUME GatewayType, SoundInv, NEW r \in Request, Serving(r) \/ Running(r), Outside
  PROVE  [Promise!Next]_Promise!vars
  <1>0. /\ Sound(r) /\ target[r] \in Session
        /\ lock \in [Session -> Request \cup {None}] /\ None \notin Request
    BY ServiceAssumption DEF SoundInv, GatewayType
  <1>1. \A q \in Request : Told(q)' = Told(q)
    BY DEF Told, Ended, EventStream, Outside
  <1>2. CASE UNCHANGED <<lock, saved>>
    BY <1>1, <1>2, SilentRefines
  <1>3. ASSUME NEW s \in Session, lock' = [lock EXCEPT ![s] = None], saved' = saved
        PROVE  [Promise!Next]_Promise!vars
    <2>1. Promise!LetGo(s)
      BY <1>1, <1>3 DEF Promise!LetGo
    <2> QED
      BY <2>1 DEF Promise!Next
  <1>4. CASE Enter(r) /\ ~UNCHANGED <<lock, saved>>
    <2>1. lock[target[r]] = None /\ lock' = [lock EXCEPT ![target[r]] = r] /\ saved' = saved
      BY <1>4 DEF Enter, Own
    <2>2. Told(r) = "none"
      BY <1>0, <1>4, NotYetTold DEF Enter, Sound, Together
    <2>3. Promise!Take(r, target[r])
      BY <1>1, <2>1, <2>2 DEF Promise!Take
    <2> QED
      BY <1>0, <2>3 DEF Promise!Next
  <1>5. CASE SaveWrite(r) /\ ~UNCHANGED <<lock, saved>>
    <2>1. saved' = saved \cup {r} /\ lock' = lock /\ lock[target[r]] = r
      BY <1>0, <1>5 DEF SaveWrite, Sound, Locks, InLock
    <2>2. Told(r) = "none"
      BY <1>0, <1>5, NotYetTold DEF SaveWrite, Sound, Together
    <2>3. Promise!Keep(r, target[r])
      BY <1>1, <2>1, <2>2 DEF Promise!Keep
    <2> QED
      BY <1>0, <2>3 DEF Promise!Next
  <1>6. CASE (Release(r) \/ Finalize(r)) /\ ~UNCHANGED <<lock, saved>>
    <2>1. lock' = [lock EXCEPT ![target[r]] = None] /\ saved' = saved
      BY <1>6 DEF Release, Finalize, Freed
    <2> QED
      BY <1>0, <1>3, <2>1
  <1> QED
    BY <1>2, <1>4, <1>5, <1>6
    DEF Serving, Running, Attach, TimeOut, RunTimesOut, PopInstance, DeleteKey, CloseInstance,
        StoreRecord, InstallInstance, Yield, RunEnds, redis

(* All that a process does about its requests is a step of Exchange.       *)
LEMMA RequestRefines ==
  ASSUME GatewayType, SoundInv,
         \/ \E r \in Request, k \in Kinds, s \in Session : Arrive(r, k, s)
         \/ \E r \in Request : RequestStep(r)
         \/ Expiry
  PROVE  [Promise!Next]_Promise!vars
  <1>1. ASSUME NEW r \in Request, NEW k \in Kinds, NEW s \in Session, Arrive(r, k, s)
        PROVE  [Promise!Next]_Promise!vars
    <2>1. Only(r) /\ UNCHANGED <<lock, saved>>
      BY <1>1, ArriveSound DEF Arrive, redis
    <2>2. Told(r)' = "none" /\ Told(r) = "none"
      BY <1>1 DEF GatewayType, Arrive, Goto, Told
    <2> QED
      BY <2>1, <2>2, SameTold, SilentRefines
  <1>2. ASSUME NEW r \in Request, RequestStep(r)
        PROVE  [Promise!Next]_Promise!vars
    BY <1>2, HandlingRefines, ManagerRefines, LeavingRefines DEF RequestStep, Progress
  <1>3. CASE Expiry
    <2>1. \A q \in Request : Told(q)' = Told(q)
      BY <1>3 DEF Expiry, Outside, Told, Ended, EventStream
    <2>2. CASE \E s \in Session : LockExpires(s)
      <3>1. PICK s \in Session : LockExpires(s)
        BY <2>2
      <3>2. Promise!LetGo(s)
        BY <2>1, <3>1 DEF LockExpires, Promise!LetGo
      <3> QED
        BY <3>2 DEF Promise!Next
    <2>3. CASE \E s \in Session : SessionExpires(s)
      BY <2>1, <2>3, SilentRefines DEF SessionExpires
    <2> QED
      BY <1>3, <2>2, <2>3 DEF Expiry
  <1> QED
    BY <1>1, <1>2, <1>3
=============================================================================
