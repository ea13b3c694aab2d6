------------------------------- MODULE Gateway -------------------------------
(***************************************************************************)
(* The HTTP side of one API process: middlewares, routers, the A2A routes, *)
(* the error handlers and the two kinds of event streams, over the session *)
(* manager of Service.                                                     *)
(*                                                                         *)
(* A response that is an event stream starts with status 200; whatever     *)
(* goes wrong later can only cut its body.  The REST stream calls the      *)
(* manager inside the body.  The A2A stream pulls its first chunk in the   *)
(* handler, so that an early refusal is still a JSON-RPC error; but then   *)
(* asyncio's timeout belongs to the handler's task, while the body's task  *)
(* goes on with the generator.                                             *)
(*                                                                         *)
(* Beside some operators stands a variant with a slip in it, which no      *)
(* specification uses.                                                     *)
(***************************************************************************)
EXTENDS Service

CONSTANT Asks  \* bound: request -> the kinds of request it may be

VARIABLES
  kind,      \* what a request asks for
  pc,        \* how far the process is with it
  status,    \* the HTTP status of its response, 0 before there is one
  code,      \* the JSON-RPC error code in its body, 0 for none
  events,    \* the events sent: Working, the numbers of chunks, Done
  active,    \* the gauge of requests in flight
  recorded   \* request -> the status the metrics have for it, 0 for none

vars == <<serviceVars, kind, pc, status, code, events, active, recorded>>

Rest == {"send", "stream", "create", "delete"}
A2A == {"a2aSend", "a2aStream"}
Messages == {"send", "stream", "a2aSend", "a2aStream"}
Streams == {"stream", "a2aStream"}
Kinds == Rest \cup A2A \cup {"ready"}

ASSUME AsksAssumption == Asks \in [Request -> SUBSET Kinds]

InFlight == {"stack", "lookup", "resolve", "handler", "respond", "raised"}
PcValues == InFlight \cup {"idle", "body", "done"}

(* What each domain exception becomes.                                     *)
StatusOf == [notfound |-> 404, conflict |-> 409, timeout |-> 504]
Success == [r \in Request |-> CASE kind[r] = "create" -> 201
                                [] kind[r] = "delete" -> 204
                                [] OTHER -> 200]
(* No key, body too large, not valid, too many requests or streams.        *)
TurnedAway == {401, 413, 422, 429}
InvalidRequest == -32600
MethodNotFound == -32601
InvalidParams == -32602

(* The first event of an A2A stream; the last of a stream that went well.  *)
Working == 0
Done == -1

GatewayInit ==
  /\ ServiceInit
  /\ kind = [r \in Request |-> None]
  /\ pc = [r \in Request |-> "idle"]
  /\ status = [r \in Request |-> 0]
  /\ code = [r \in Request |-> 0]
  /\ events = [r \in Request |-> <<>>]
  /\ active = 0
  /\ recorded = [r \in Request |-> 0]

Goto(r, label) == pc' = [pc EXCEPT ![r] = label]

(* The handler waits for the manager, from this label of it on.            *)
Await(r, label) ==
  /\ Goto(r, "handler")
  /\ End(r, label, None)
  /\ UNCHANGED <<status, code>>

Reply(r, st, cd) ==
  /\ Goto(r, "respond")
  /\ status' = [status EXCEPT ![r] = st]
  /\ code' = [code EXCEPT ![r] = cd]
  /\ UNCHANGED <<call, outcome>>

Raise(r) ==
  /\ Goto(r, "raised")
  /\ UNCHANGED <<call, outcome, status, code>>

(* What a handler leaves alone until its response starts.                  *)
Quiet ==
  UNCHANGED <<target, produced, redis, memory, offered, kind, events, active, recorded>>

(* Bound: the sessions two requests may meet on.  A session that a request *)
(* creates here is used by no other.                                       *)
Known == {Shared}

Metered(r) == kind[r] # "ready"
GaugeRises == active' = active + 1
GaugeLeaks == active' = active
GaugeDrops == active' = active - 1
Record(r, st) == recorded' = [recorded EXCEPT ![r] = st]

EventStream(r) == kind[r] \in Streams /\ status[r] = 200 /\ code[r] = 0
-----------------------------------------------------------------------------
(* Middlewares and handlers.                                               *)

(* An A2A message may come without a session, and then gets its own.       *)
Arrive(r, k, s) ==
  /\ pc[r] = "idle"
  /\ k \in Asks[r]
  /\ CASE k = "create" -> s = r
       [] k \in A2A -> s \in Known \cup {r}
       [] OTHER -> s \in Known
  /\ kind' = [kind EXCEPT ![r] = k]
  /\ target' = [target EXCEPT ![r] = s]
  /\ Goto(r, "stack")
  /\ IF k = "ready" THEN UNCHANGED active ELSE GaugeRises
  /\ UNCHANGED <<call, outcome, produced, redis, memory, offered,
                 status, code, events, recorded>>

(* Rate limits, authentication and validation; Redis may fail in the first.*)
TurnAway(r) ==
  /\ pc[r] = "stack"
  /\ Metered(r)
  /\ (\E st \in TurnedAway : Reply(r, st, 0)) \/ Raise(r)
  /\ Quiet

Probe(r) ==
  /\ pc[r] = "stack"
  /\ kind[r] = "ready"
  /\ \E pong \in BOOLEAN : Reply(r, IF pong /\ offered THEN 200 ELSE 503, 0)
  /\ Quiet

HandleRest(r) ==
  /\ pc[r] = "stack"
  /\ kind[r] \in Rest
  /\ IF kind[r] = "create"
       THEN Await(r, "store")
       ELSE Goto(r, "lookup") /\ UNCHANGED <<call, outcome, status, code>>
  /\ Quiet

(* The session is missing, or another agent's, or Redis fails.  A stream   *)
(* answers at once and leaves the manager to the body.                     *)
LookUp(r) ==
  /\ pc[r] = "lookup"
  /\ \/ /\ target[r] \in stored
        /\ \/ kind[r] = "send" /\ Await(r, "lookup")
           \/ kind[r] = "delete" /\ Await(r, "pop")
           \/ kind[r] = "stream" /\ Reply(r, 200, 0)
     \/ Reply(r, 404, 0)
     \/ Raise(r)
  /\ Quiet

HandleA2A(r) ==
  /\ pc[r] = "stack"
  /\ kind[r] \in A2A
  /\ \/ \E cd \in {InvalidRequest, MethodNotFound, InvalidParams} : Reply(r, 200, cd)
     \/ target[r] # r /\ Await(r, "lookup")
     \/ target[r] = r /\ ~offered /\ Reply(r, 200, 503)
     \/ /\ target[r] = r
        /\ offered
        /\ Goto(r, "resolve")
        /\ End(r, "store", None)
        /\ UNCHANGED <<status, code>>
  /\ Quiet

(* Whatever the creation of the session raises is taken for bad params.    *)
Resolve(r) ==
  /\ pc[r] = "resolve"
  /\ call[r] = "over"
  /\ \/ outcome[r] = "ok" /\ Await(r, "lookup")
     \/ outcome[r] = "error" /\ Reply(r, 200, InvalidParams)
     \/ outcome[r] \in DOMAIN StatusOf /\ Reply(r, 200, StatusOf[outcome[r]])
  /\ Quiet

(* The manager has returned, or raised a domain exception, or anything     *)
(* else, which passes all handlers but the last.                           *)
Answer(r) ==
  /\ pc[r] = "handler"
  /\ call[r] = "over"
  /\ \/ outcome[r] = "ok" /\ Reply(r, Success[r], 0)
     \/ outcome[r] = "error" /\ Raise(r)
     \/ /\ outcome[r] \in DOMAIN StatusOf
        /\ IF kind[r] \in A2A THEN Reply(r, 200, StatusOf[outcome[r]])
                              ELSE Reply(r, StatusOf[outcome[r]], 0)
  /\ Quiet

AnswerFirstChunk(r) ==
  /\ pc[r] = "handler"
  /\ call[r] = "yielded"
  /\ Reply(r, 200, 0)
  /\ Quiet

(* On the way out: the metrics take the request from the gauge and record  *)
(* it.  The body of a REST stream begins by calling the manager.           *)
Respond(r) ==
  /\ pc[r] = "respond"
  /\ IF EventStream(r) THEN Goto(r, "body") ELSE Goto(r, "done")
  /\ IF EventStream(r) /\ kind[r] = "stream" THEN Step(r, "lookup") ELSE UNCHANGED call
  /\ IF Metered(r)
       THEN GaugeDrops /\ Record(r, status[r])
       ELSE UNCHANGED <<active, recorded>>
  /\ UNCHANGED <<target, outcome, produced, redis, memory, offered,
                 kind, status, code, events>>

(* An exception passes the logging, rate limiting and metrics middlewares  *)
(* and ends in the handler for all others.                                 *)
Escape(r) ==
  /\ pc[r] = "raised"
  /\ Goto(r, "done")
  /\ status' = [status EXCEPT ![r] = 500]
  /\ GaugeDrops
  /\ Record(r, 500)
  /\ UNCHANGED <<serviceVars, kind, code, events>>
-----------------------------------------------------------------------------
(* Bodies of event streams.                                                *)

Emit(r, event) == events' = [events EXCEPT ![r] = Append(@, event)]

SendWorking(r) ==
  /\ pc[r] = "body"
  /\ kind[r] = "a2aStream"
  /\ events[r] = <<>>
  /\ Emit(r, Working)
  /\ UNCHANGED <<serviceVars, kind, pc, status, code, active, recorded>>

Opened(r) == kind[r] = "a2aStream" => events[r] # <<>>

SendEachChunk(r) == Emit(r, produced[r])
SendLaterChunk(r) ==
  IF kind[r] = "a2aStream" /\ produced[r] = 1 THEN UNCHANGED events
                                              ELSE Emit(r, produced[r])
SendPending(r) == SendEachChunk(r)

(* The generator is resumed when the chunk it yielded has been sent.       *)
SendChunk(r) ==
  /\ pc[r] = "body"
  /\ call[r] = "yielded"
  /\ Opened(r)
  /\ SendPending(r)
  /\ Step(r, "run")
  /\ UNCHANGED <<target, outcome, produced, redis, memory, offered,
                 kind, pc, status, code, active, recorded>>

(* The generator is through: the last event, or after an exception none.   *)
EndBody(r) ==
  /\ pc[r] = "body"
  /\ call[r] = "over"
  /\ Opened(r)
  /\ IF outcome[r] = "ok" THEN Emit(r, Done) ELSE UNCHANGED events
  /\ Goto(r, "done")
  /\ UNCHANGED <<serviceVars, kind, status, code, active, recorded>>

(* The client leaves, or the server tells its streams to end.              *)
HangUp(r) ==
  /\ pc[r] = "body"
  /\ Goto(r, "done")
  /\ Step(r, Left(r))
  /\ UNCHANGED <<target, outcome, produced, redis, memory, offered,
                 kind, status, code, events, active, recorded>>

(* The task that set the timer waits for something else than the agent: for*)
(* the client to take a chunk, or, if it is the handler of an A2A stream,  *)
(* for its body's task, whatever that does.  It is cancelled all the same. *)
TimesOutElsewhere(r) ==
  /\ \/ call[r] = "yielded" /\ pc[r] \in {"respond", "body"}
     \/ call[r] = "run" /\ pc[r] = "body" /\ kind[r] = "a2aStream"
  /\ Goto(r, IF pc[r] = "body" THEN "done" ELSE "raised")
  /\ Step(r, Left(r))
  /\ UNCHANGED <<target, outcome, produced, redis, memory, offered,
                 kind, status, code, events, active, recorded>>
-----------------------------------------------------------------------------
Outside == UNCHANGED <<kind, pc, status, code, events, active, recorded>>

TimeOutForgotten(r) == FALSE
(* The timer runs out while its own task waits for the agent.              *)
TimeOut(r) ==
  /\ kind[r] = "a2aStream" => pc[r] = "handler"
  /\ RunTimesOut(r)

Handling(r) ==
  \/ TurnAway(r) \/ Probe(r) \/ HandleRest(r) \/ LookUp(r) \/ HandleA2A(r)
  \/ Resolve(r) \/ Answer(r) \/ AnswerFirstChunk(r) \/ Respond(r) \/ Escape(r)
  \/ SendWorking(r) \/ SendChunk(r) \/ EndBody(r)

Serving(r) ==
  \/ Enter(r) \/ Attach(r) \/ TimeOut(r) \/ SaveWrite(r) \/ Release(r) \/ Finalize(r)
  \/ PopInstance(r) \/ DeleteKey(r) \/ CloseInstance(r)
  \/ StoreRecord(r) \/ InstallInstance(r)

Running(r) == (kind[r] \in Streams /\ Yield(r)) \/ RunEnds(r)

(* What the process does about a request by itself.                        *)
Progress(r) ==
  \/ Handling(r)
  \/ Serving(r) /\ Outside
  \/ TimesOutElsewhere(r)

RequestStep(r) ==
  \/ Progress(r)
  \/ Running(r) /\ Outside
  \/ HangUp(r)

(* Sessions and locks expire in Redis.                                     *)
Expiry == Outside /\ \E s \in Session : SessionExpires(s) \/ LockExpires(s)

Reload ==
  /\ offered' \in BOOLEAN
  /\ UNCHANGED <<calling, redis, memory, kind, pc, status, code, events, active, recorded>>
-----------------------------------------------------------------------------
GatewayType ==
  /\ target \in [Request -> Session]
  /\ call \in [Request -> Calls]
  /\ outcome \in [Request -> Outcomes \cup {None}]
  /\ produced \in [Request -> 0..MaxChunks]
  /\ lock \in [Session -> Request \cup {None}]
  /\ stored \in SUBSET Session
  /\ saved \in SUBSET Request
  /\ instances \in [Session -> Request \cup {None}]
  /\ built \in SUBSET Request
  /\ closed \in SUBSET Request
  /\ popped \in [Request -> Request \cup {None}]
  /\ offered \in BOOLEAN
  /\ kind \in [Request -> Kinds \cup {None}]
  /\ pc \in [Request -> PcValues]
  /\ status \in [Request -> Nat]
  /\ code \in [Request -> Int]
  /\ events \in [Request -> Seq(Done..MaxChunks)]
  /\ active \in Int
  /\ recorded \in [Request -> Nat]

(* What the sender of a message has been told when its request is over.    *)
Ended(r) == events[r] # <<>> /\ events[r][Len(events[r])] = Done
Told(r) ==
  IF pc[r] # "done" \/ kind[r] \notin Messages THEN "none"
  ELSE IF status[r] = 500 \/ (EventStream(r) /\ ~Ended(r)) THEN "failure"
  ELSE IF status[r] = 200 /\ code[r] = 0 THEN "success"
  ELSE "refusal"

Promise == INSTANCE Exchange WITH
  holder <- lock, kept <- saved, answer <- [r \in Request |-> Told(r)]

(* Whatever path a message takes through the handlers, success (also the   *)
(* done event of a stream) means that it is stored and its session is free *)
(* again, a refusal that it is not and will not be, and nothing is stored  *)
(* once its client has been answered or cut off.                           *)
ImplementsExchange == Promise!Spec

(* The gauge counts the requests whose response has not started, whichever *)
(* way they end, and the status recorded is the one that was sent.         *)
MetricsAreTrue ==
  /\ active = Cardinality({r \in Request : pc[r] \in InFlight /\ Metered(r)})
  /\ \A r \in Request :
       pc[r] \in {"body", "done"} /\ Metered(r) => recorded[r] = status[r]

IsWhole(r) ==
  events[r] = (IF kind[r] = "stream" THEN <<>> ELSE <<Working>>)
              \o [i \in 1..produced[r] |-> i] \o <<Done>>

(* A stream that ends with its done event has brought every chunk of the   *)
(* run once, in order: also the one the A2A handler pulled ahead.          *)
StreamIsWhole ==
  \A r \in Request : EventStream(r) /\ Told(r) = "success" => IsWhole(r)
=============================================================================
