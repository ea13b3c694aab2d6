---------------------------- MODULE HistoryProofs ----------------------------
(***************************************************************************)
(* No history stored in Redis is ever overwritten by one that lacks part   *)
(* of it, what was acknowledged stays, and what was refused, or was sent to *)
(* another session, never gets in:                                         *)
(* for any number of replicas and messages, with deletions, expiry, lost   *)
(* replies and crashes at any moment.                                      *)
(*                                                                         *)
(* The argument: whoever is inside the lock carries what is stored (by     *)
(* HolderKeepsLock nobody else writes meanwhile), on an agent that nobody  *)
(* of another session shares; and what is stored consists of messages that *)
(* are past their save.  On a single replica the usage that Redis keeps    *)
(* covers what it keeps of the messages as well: see UsageInv below.       *)
(***************************************************************************)
EXTENDS LockProofs

(* A request that has arrived names a session that was created.            *)
TargetsWereBorn ==
  \A r \in Requests : pc[r] # "idle" => target[r] \in born

(* Sessions are created once.                                              *)
StoredWereBorn ==
  \A s \in Session : store[s] # None => s \in born

(* An agent works for one session, that of the request that built it.      *)
Serves(a, s) == pc[a] # "idle" /\ target[a] = s

AgentsServeOne ==
  /\ \A p \in Replica, s \in Session :
       instances[p][s] # None => Serves(instances[p][s], s)
  /\ \A r \in Message :
       pc[r] \in {"touch", "run"} => Serves(agentOf[r], target[r])

(* What a holder has read is what is stored, as long as anything is.       *)
ReadIsStored ==
  \A r \in Message :
    /\ pc[r] \in {"attach", "touch", "run"} /\ store[target[r]] # None =>
         store[target[r]].hist = data[r].hist
    /\ pc[r] \in Saving /\ store[target[r]] # None =>
         data[r].hist = Append(store[target[r]].hist, r)

AgentHasRead ==
  \A r \in Message : pc[r] \in {"touch", "run"} =>
    agents[agentOf[r]].hist = data[r].hist

(* A message in a history is past its save and was not refused.            *)
Saved(m) == pc[m] \in {"release", "done"} /\ reply[m] \in {"ok", "error", "crashed"}

StoredAreSaved ==
  \A s \in Session, m \in Message :
    store[s] # None /\ Holds(store[s].hist, m) => Saved(m)

ReadAreSaved ==
  \A r, m \in Message :
    pc[r] \in Critical \ {"reread"} /\ Holds(data[r].hist, m) =>
      Saved(m) \/ (m = r /\ pc[r] \in Saving)

(* Nobody is acknowledged before the end, and a holder has read all that   *)
(* was acknowledged; what it saves has its own message in it.              *)
AckedAtEnd ==
  \A r \in Message : reply[r] = "ok" => pc[r] \in {"release", "done"}

AckedIsRead ==
  \A r, m \in Message :
    /\ pc[r] \in Critical \ {"reread"}
    /\ \/ reply[m] = "ok" /\ target[m] = target[r]
       \/ m = r /\ pc[r] \in Saving
    => Holds(data[r].hist, m)

HistoryInv ==
  /\ TargetsWereBorn
  /\ StoredWereBorn
  /\ AgentsServeOne
  /\ ReadIsStored
  /\ AgentHasRead
  /\ StoredAreSaved
  /\ ReadAreSaved
  /\ AckedAtEnd
  /\ AckedIsStored
  /\ AckedIsRead

-----------------------------------------------------------------------------
(* Appending one message adds that message and nothing else.               *)
LEMMA HoldsAppend ==
  ASSUME NEW h \in Seq(Message), NEW r \in Message, NEW m
  PROVE  Holds(Append(h, r), m) <=> Holds(h, m) \/ m = r
  <1>1. /\ DOMAIN h = 1 .. Len(h)
        /\ DOMAIN Append(h, r) = 1 .. Len(h) + 1
        /\ Append(h, r)[Len(h) + 1] = r
        /\ \A i \in 1 .. Len(h) : Append(h, r)[i] = h[i]
        /\ Len(h) \in Nat
    OBVIOUS
  <1>2. Len(h) + 1 \in 1 .. Len(h) + 1
    BY <1>1
  <1>3. \A i \in 1 .. Len(h) + 1 : i \in 1 .. Len(h) \/ i = Len(h) + 1
    BY <1>1
  <1>4. \A i \in 1 .. Len(h) : i \in 1 .. Len(h) + 1
    BY <1>1
  <1> QED
    BY <1>1, <1>2, <1>3, <1>4 DEF Holds

(* Two messages inside their locks are on different sessions, so the agent *)
(* of one serves another session than the other's.                         *)
LEMMA AgentsApart ==
  ASSUME TypeOK, LockOutlivesHolder, HistoryInv,
         NEW q \in Message, NEW r \in Message, q # r,
         pc[q] \in {"touch", "run"}, pc[r] \in Critical
  PROVE  /\ target[q] # target[r]
         /\ target[agentOf[q]] # target[r]
  <1>1. pc[q] \in Critical
    BY DEF Critical, BeforeRun
  <1>2. lock[target[q]] = q /\ lock[target[r]] = r
    BY <1>1 DEF LockOutlivesHolder
  <1>3. target[agentOf[q]] = target[q]
    BY DEF HistoryInv, AgentsServeOne, Serves
  <1> QED
    BY <1>2, <1>3

(* How the steps that write no history move a message: along, or out.      *)
Onward(from, to) ==
  \/ to = from
  \/ to \notin Critical
  \/ from = "acquire" /\ to = "reread"
  \/ from = "touch" /\ to = "run"
  \/ from = "saveGet" /\ to = "saveSet"

(* What all steps but Reread, Attach, RunDone and SaveSet have in common:  *)
(* they may create or remove sessions, cached agents and requests, but no  *)
(* history gains anything, nobody inside reads anything new, and nobody is *)
(* acknowledged.                                                           *)
WritesNothing ==
  /\ UNCHANGED data
  /\ born \subseteq born'
  /\ \A s \in Session :
       \/ store'[s] = store[s]
       \/ store'[s] = None
       \/ s \notin born /\ s \in born' /\ store'[s] = Blank
  /\ \A p \in Replica, s \in Session :
       \/ instances'[p][s] = instances[p][s]
       \/ instances'[p][s] = None
       \/ Serves(instances[p][s], s)'
  /\ \A q \in Requests :
       /\ pc[q] # "idle" => pc'[q] # "idle" /\ target'[q] = target[q]
       /\ pc[q] = "idle" /\ pc'[q] # "idle" => target'[q] \in born'
  /\ \A q \in Message :
       /\ Onward(pc[q], pc'[q])
       /\ agentOf'[q] = agentOf[q]
       /\ pc'[q] \in {"touch", "run"} =>
            agents'[agentOf[q]].hist = agents[agentOf[q]].hist
       /\ Saved(q) => Saved(q)'
       /\ reply'[q] = "ok" => reply[q] = "ok" /\ pc'[q] \in {"release", "done"}

(* Such a step keeps the invariant.                                        *)
LEMMA NothingWritten ==
  ASSUME TypeOK, TypeOK', HistoryInv, WritesNothing
  PROVE  HistoryInv'
  <1>0. /\ \A q \in Message : q \in Requests
        /\ \A a \in AgentId : a \in Requests
        /\ None \notin Session
    BY NoneIsNothing DEF Requests, AgentId
  <1>1. \A q \in Message : pc'[q] \in Critical =>
          /\ pc[q] # "idle" /\ target'[q] = target[q] /\ target[q] \in Session
          /\ target[q] \in born
    <2> SUFFICES ASSUME NEW q \in Message, pc'[q] \in Critical
                 PROVE  pc[q] # "idle"
      BY <1>0 DEF WritesNothing, TypeOK, BoundWhenUsed, HistoryInv, TargetsWereBorn
    <2>1. Onward(pc[q], pc'[q])
      BY DEF WritesNothing
    <2> QED
      BY <2>1 DEF Onward, Critical, BeforeRun, Saving
  <1>2. \A q \in Message :
          /\ pc'[q] \in {"attach", "touch", "run"} => pc[q] \in {"attach", "touch", "run"}
          /\ pc'[q] \in {"touch", "run"} => pc[q] \in {"touch", "run"}
          /\ pc'[q] \in Saving => pc[q] \in Saving
          /\ pc'[q] \in Critical \ {"reread"} => pc[q] \in Critical \ {"reread"}
    BY DEF WritesNothing, Onward, Critical, BeforeRun, Saving
  <1>3. \A m \in Message : reply'[m] = "ok" =>
          reply[m] = "ok" /\ pc[m] # "idle" /\ target'[m] = target[m] /\ target[m] \in born
    <2> SUFFICES ASSUME NEW m \in Message, reply'[m] = "ok"
                 PROVE  reply[m] = "ok" /\ pc[m] # "idle" /\ target'[m] = target[m] /\ target[m] \in born
      OBVIOUS
    <2>1. reply[m] = "ok"
      BY DEF WritesNothing
    <2>2. pc[m] \in {"release", "done"}
      BY <2>1 DEF HistoryInv, AckedAtEnd
    <2> QED
      BY <1>0, <2>1, <2>2 DEF WritesNothing, HistoryInv, TargetsWereBorn
  <1>4. TargetsWereBorn'
    BY DEF HistoryInv, TargetsWereBorn, WritesNothing
  <1>5. StoredWereBorn'
    BY DEF HistoryInv, StoredWereBorn, WritesNothing
  <1>6. AgentsServeOne'
    <2>1. ASSUME NEW a \in Requests, NEW s \in Session, Serves(a, s)
          PROVE  Serves(a, s)'
      BY <2>1 DEF Serves, WritesNothing
    <2>2. ASSUME NEW p \in Replica, NEW s \in Session, instances'[p][s] # None
          PROVE  Serves(instances[p][s], s)'
      <3>1. CASE instances'[p][s] = instances[p][s]
        <4>1. instances[p][s] \in AgentId /\ Serves(instances[p][s], s)
          BY <2>2, <3>1 DEF TypeOK, MemoryType, HistoryInv, AgentsServeOne
        <4>2. Serves(instances[p][s], s)' <=> pc'[instances[p][s]] # "idle" /\ target'[instances[p][s]] = s
          BY <3>1 DEF Serves
        <4> QED
          BY <1>0, <2>1, <4>1, <4>2 DEF Serves
      <3>2. CASE instances'[p][s] # instances[p][s]
        BY <2>2, <3>2 DEF WritesNothing
      <3> QED
        BY <3>1, <3>2
    <2>3. ASSUME NEW q \in Message, pc'[q] \in {"touch", "run"}
          PROVE  Serves(agentOf[q], target[q])'
      <3>1. pc[q] \in {"touch", "run"} /\ pc'[q] \in Critical
        BY <1>2, <2>3 DEF Critical, BeforeRun
      <3>2. target'[q] = target[q] /\ target[q] \in Session /\ agentOf'[q] = agentOf[q]
        BY <1>1, <3>1 DEF WritesNothing
      <3>3. agentOf[q] \in AgentId /\ Serves(agentOf[q], target[q])
        BY <3>1 DEF TypeOK, BoundWhenUsed, HistoryInv, AgentsServeOne
      <3>4. pc'[agentOf[q]] # "idle" /\ target'[agentOf[q]] = target[q]
        BY <1>0, <2>1, <3>2, <3>3 DEF Serves
      <3> QED
        BY <3>2, <3>4 DEF Serves
    <2> QED
      BY <2>2, <2>3 DEF AgentsServeOne
  <1>7. ASSUME NEW q \in Message, pc'[q] \in Critical, store'[target'[q]] # None
        PROVE  store'[target'[q]] = store[target[q]] /\ target'[q] = target[q]
    BY <1>1, <1>7 DEF WritesNothing
  <1>8. ReadIsStored'
    <2> SUFFICES ASSUME NEW q \in Message, pc'[q] \in Critical \ {"reread"},
                        store'[target'[q]] # None
                 PROVE  /\ pc'[q] \in {"attach", "touch", "run"} =>
                             store'[target'[q]].hist = data'[q].hist
                        /\ pc'[q] \in Saving =>
                             data'[q].hist = Append(store'[target'[q]].hist, q)
      BY DEF ReadIsStored, Critical, BeforeRun, Saving
    <2>1. store'[target'[q]] = store[target[q]] /\ data' = data
      BY <1>7 DEF WritesNothing
    <2> QED
      BY <1>2, <2>1 DEF HistoryInv, ReadIsStored
  <1>9. AgentHasRead'
    BY <1>2 DEF HistoryInv, AgentHasRead, WritesNothing
  <1>10. StoredAreSaved'
    <2> SUFFICES ASSUME NEW s \in Session, NEW m \in Message,
                        store'[s] # None, Holds(store'[s].hist, m)
                 PROVE  Saved(m)'
      BY DEF StoredAreSaved
    <2>1. store'[s] # Blank
      BY DEF Blank, Holds
    <2>2. store'[s] = store[s]
      BY <2>1 DEF WritesNothing
    <2>3. Saved(m)
      BY <2>2 DEF HistoryInv, StoredAreSaved
    <2> QED
      BY <2>3 DEF WritesNothing
  <1>11. ReadAreSaved'
    <2> SUFFICES ASSUME NEW q \in Message, NEW m \in Message,
                        pc'[q] \in Critical \ {"reread"}, Holds(data'[q].hist, m)
                 PROVE  Saved(m)' \/ (m = q /\ pc'[q] \in Saving)
      BY DEF ReadAreSaved
    <2>1. pc[q] \in Critical \ {"reread"} /\ Holds(data[q].hist, m)
      BY <1>2 DEF WritesNothing
    <2>2. Saved(m) \/ (m = q /\ pc[q] \in Saving)
      BY <2>1 DEF HistoryInv, ReadAreSaved
    <2>3. pc[q] \in Saving => pc'[q] \in Saving
      BY DEF WritesNothing, Onward, Critical, BeforeRun, Saving
    <2> QED
      BY <2>2, <2>3 DEF WritesNothing
  <1>12. AckedAtEnd'
    BY DEF AckedAtEnd, WritesNothing
  <1>13. AckedIsStored'
    <2> SUFFICES ASSUME NEW m \in Message, reply'[m] = "ok", store'[target'[m]] # None
                 PROVE  Holds(store'[target'[m]].hist, m)
      BY DEF AckedIsStored
    <2>1. target[m] \in Session
      BY <1>0, <1>3 DEF TypeOK, BoundWhenUsed
    <2>2. store'[target'[m]] = store[target[m]]
      BY <1>3, <2>1 DEF WritesNothing
    <2> QED
      BY <1>3, <2>2 DEF HistoryInv, AckedIsStored
  <1>14. AckedIsRead'
    BY <1>1, <1>2, <1>3 DEF HistoryInv, AckedIsRead, WritesNothing
  <1> QED
    BY <1>4, <1>5, <1>6, <1>8, <1>9, <1>10, <1>11, <1>12, <1>13, <1>14 DEF HistoryInv

(* The types the steps below rest on.                                      *)
LEMMA HistoryTypes ==
  ASSUME TypeOK, HistoryInv
  PROVE  /\ pc \in [Requests -> PcValues] /\ reply \in [Requests -> Replies]
         /\ target \in [Requests -> Session \cup {None}]
         /\ store \in [Session -> Record \cup {None}]
         /\ instances \in [Replica -> [Session -> AgentId \cup {None}]]
         /\ \A q \in Requests : pc[q] # "idle" =>
              target[q] \in Session /\ target[q] \in born /\ home[q] \in Replica
         /\ \A q \in Message : reply[q] = "ok" => pc[q] \in {"release", "done"}
         /\ Message \subseteq Requests /\ Deletion \subseteq Requests /\ Creation \subseteq Requests
  BY DEF TypeOK, ControlType, LocalType, RedisType, MemoryType, BoundWhenUsed,
         HistoryInv, TargetsWereBorn, AckedAtEnd, Requests

(* Arrive lets a message in, to a session that was created.                *)
LEMMA ArriveHarmless ==
  ASSUME TypeOK, HistoryInv, NEW r \in Message, NEW p \in Replica, NEW s \in Session, Arrive(r, p, s)
  PROVE  WritesNothing
  BY HistoryTypes, DisjointRequests
  DEF WritesNothing, Arrive, Goto, Route, Known, Finish, redis, memory, local, ghost, Onward, Saved,
      Critical, BeforeRun, Saving

(* Acquire touches the lock only.                                          *)
LEMMA AcquireHarmless ==
  ASSUME TypeOK, HistoryInv, NEW r \in Message, NEW heard \in BOOLEAN, Acquire(r, heard)
  PROVE  WritesNothing
  BY HistoryTypes, DisjointRequests
  DEF WritesNothing, Acquire, Goto, Finish, redis, memory, local, ghost, Onward, Saved,
      Critical, BeforeRun, Saving

(* Touch renews a TTL.                                                     *)
LEMMA TouchHarmless ==
  ASSUME TypeOK, HistoryInv, NEW r \in Message, Touch(r)
  PROVE  WritesNothing
  BY HistoryTypes, DisjointRequests
  DEF WritesNothing, Touch, Goto, redis, memory, local, ghost, Onward, Saved,
      Critical, BeforeRun, Saving

(* SaveGet reads whether the session is there.                             *)
LEMMA SaveGetHarmless ==
  ASSUME TypeOK, HistoryInv, NEW r \in Message, SaveGet(r)
  PROVE  WritesNothing
  BY HistoryTypes, DisjointRequests
  DEF WritesNothing, SaveGet, Goto, Unwind, redis, memory, local, ghost, Onward, Saved,
      Critical, BeforeRun, Saving

(* Release touches the lock only; its errors make no message acknowledged. *)
LEMMA ReleaseHarmless ==
  ASSUME TypeOK, HistoryInv, NEW r \in Message, NEW done \in BOOLEAN, NEW heard \in BOOLEAN, Release(r, done, heard)
  PROVE  WritesNothing
  BY HistoryTypes, DisjointRequests
  DEF WritesNothing, Release, Goto, Finish, redis, memory, local, ghost, Onward, Saved,
      Critical, BeforeRun, Saving

(* A failed command leads out.                                             *)
LEMMA FailHarmless ==
  ASSUME TypeOK, HistoryInv, NEW r \in Message, Fail(r)
  PROVE  WritesNothing
  BY HistoryTypes, DisjointRequests
  DEF WritesNothing, Fail, Goto, Unwind, Finish, Waiting, redis, memory, local, ghost, Onward, Saved,
      Critical, BeforeRun, Saving

(* DelLookup lets a deletion in.                                           *)
LEMMA DelLookupHarmless ==
  ASSUME TypeOK, HistoryInv, NEW d \in Deletion, NEW p \in Replica, NEW s \in Session, DelLookup(d, p, s)
  PROVE  WritesNothing
  BY HistoryTypes, DisjointRequests
  DEF WritesNothing, DelLookup, Goto, Route, Known, Finish, redis, memory, local, ghost, Onward, Saved,
      Critical, BeforeRun, Saving

(* Pop empties a cache entry.                                              *)
LEMMA PopHarmless ==
  ASSUME TypeOK, HistoryInv, NEW d \in Deletion, Pop(d)
  PROVE  WritesNothing
  BY HistoryTypes, DisjointRequests
  DEF WritesNothing, Pop, Goto, Uncache, redis, memory, local, ghost, Onward, Saved,
      Critical, BeforeRun, Saving

(* Del removes the session.                                                *)
LEMMA DelHarmless ==
  ASSUME TypeOK, HistoryInv, NEW d \in Deletion, NEW done \in BOOLEAN, NEW heard \in BOOLEAN, Del(d, done, heard)
  PROVE  WritesNothing
  BY HistoryTypes, DisjointRequests
  DEF WritesNothing, Del, Goto, Finish, redis, memory, local, ghost, Onward, Saved,
      Critical, BeforeRun, Saving

(* Close closes an agent.                                                  *)
LEMMA CloseHarmless ==
  ASSUME TypeOK, HistoryInv, NEW d \in Deletion, Close(d)
  PROVE  WritesNothing
  BY HistoryTypes, DisjointRequests
  DEF WritesNothing, Close, Goto, redis, memory, local, ghost, Onward, Saved,
      Critical, BeforeRun, Saving

(* CreateStore stores an empty history for a new session.                  *)
LEMMA CreateStoreHarmless ==
  ASSUME TypeOK, HistoryInv, NEW c \in Creation, NEW p \in Replica, NEW s \in Session, CreateStore(c, p, s)
  PROVE  WritesNothing
  BY HistoryTypes, DisjointRequests
  DEF WritesNothing, CreateStore, Goto, Route, redis, memory, local, ghost, Onward, Saved,
      Critical, BeforeRun, Saving

(* Install caches the agent of the new session.                            *)
LEMMA InstallHarmless ==
  ASSUME TypeOK, HistoryInv, NEW c \in Creation, Install(c)
  PROVE  WritesNothing
  BY HistoryTypes, DisjointRequests
  DEF WritesNothing, Install, Goto, Finish, Serves, redis, memory, local, ghost, Onward, Saved,
      Critical, BeforeRun, Saving

(* InstallFails leaves all but the reply alone.                            *)
LEMMA InstallFailsHarmless ==
  ASSUME TypeOK, HistoryInv, NEW c \in Creation, InstallFails(c)
  PROVE  WritesNothing
  BY HistoryTypes, DisjointRequests
  DEF WritesNothing, InstallFails, Goto, Finish, redis, memory, local, ghost, Onward, Saved,
      Critical, BeforeRun, Saving

(* Tick may remove sessions.                                               *)
LEMMA TickHarmless ==
  ASSUME TypeOK, HistoryInv, Tick
  PROVE  WritesNothing
  BY HistoryTypes, DisjointRequests
  DEF WritesNothing, Tick, redis, memory, local, ghost, Onward, Saved,
      Critical, BeforeRun, Saving

(* Crash empties a cache and ends coroutines, acknowledged or not.         *)
LEMMA CrashHarmless ==
  ASSUME TypeOK, HistoryInv, NEW p \in Replica, Crash(p)
  PROVE  WritesNothing
  BY HistoryTypes, DisjointRequests
  DEF WritesNothing, Crash, Lost, redis, memory, local, ghost, Onward, Saved,
      Critical, BeforeRun, Saving

(* A run cut off spoils the history of its own agent only, and nobody else *)
(* inside a lock is on that agent.                                         *)
LEMMA CutOffHarmless ==
  ASSUME TypeOK, LockOutlivesHolder, HistoryInv, NEW r \in Message,
         NEW answer \in {"timeout", "error"},
         pc[r] = "run", LeavePartialRun(r), Unwind(r, answer),
         UNCHANGED <<redis, instances, local, ghost>>
  PROVE  WritesNothing
  <1>1. /\ pc \in [Requests -> PcValues] /\ reply \in [Requests -> Replies]
        /\ agents \in [AgentId -> Record] /\ r \in Requests
        /\ \A q \in Message : q \in Requests
    BY DEF TypeOK, ControlType, MemoryType, Requests
  <1>2. \A q \in Message : reply[q] = "ok" => pc[q] \in {"release", "done"}
    BY DEF HistoryInv, AckedAtEnd
  <1>3. ASSUME NEW q \in Message, pc'[q] \in {"touch", "run"}
        PROVE  agents'[agentOf[q]] = agents[agentOf[q]]
    <2>1. q # r /\ pc[q] \in {"touch", "run"}
      BY <1>1, <1>3 DEF Unwind, Goto
    <2>2. target[agentOf[q]] # target[r] /\ agentOf[q] \in AgentId
      BY <2>1, AgentsApart DEF Critical, TypeOK, BoundWhenUsed
    <2>3. target[agentOf[r]] = target[r]
      BY DEF HistoryInv, AgentsServeOne, Serves
    <2>4. agentOf[q] # agentOf[r]
      BY <2>2, <2>3
    <2> QED
      BY <1>1, <2>2, <2>4 DEF LeavePartialRun
  <1>4. ASSUME NEW q \in Requests
        PROVE  /\ pc[q] # "idle" => pc'[q] # "idle" /\ target'[q] = target[q]
               /\ pc[q] = "idle" => pc'[q] = "idle"
    BY <1>1 DEF Unwind, Goto, local
  <1>5. ASSUME NEW q \in Message
        PROVE  /\ Onward(pc[q], pc'[q])
               /\ agentOf'[q] = agentOf[q]
               /\ Saved(q) => Saved(q)'
               /\ reply'[q] = "ok" => reply[q] = "ok" /\ pc'[q] \in {"release", "done"}
    BY <1>1, <1>2 DEF Unwind, Goto, local, Onward, Saved, Critical, BeforeRun, Saving
  <1> QED
    BY <1>3, <1>4, <1>5 DEF WritesNothing, redis, local, ghost

(* The timeout cuts a run off.                                             *)
LEMMA RunTimeoutHarmless ==
  ASSUME TypeOK, LockOutlivesHolder, HistoryInv, NEW r \in Message, RunTimeout(r)
  PROVE  WritesNothing
  BY CutOffHarmless DEF RunTimeout

(* An error, or a client that goes away, cuts a run off.                   *)
LEMMA RunFailsHarmless ==
  ASSUME TypeOK, LockOutlivesHolder, HistoryInv, NEW r \in Message, RunFails(r)
  PROVE  WritesNothing
  BY CutOffHarmless DEF RunFails

(* What the steps inside the lock that read or write a history share: only *)
(* the message that takes the step moves, and only it reads.               *)
OneMoves(r) ==
  /\ UNCHANGED <<target, born>>
  /\ pc[r] \in Critical
  /\ pc'[r] # "idle"
  /\ \A q \in Requests \ {r} : pc'[q] = pc[q]
  /\ \A q \in Message \ {r} :
       data'[q] = data[q] /\ agentOf'[q] = agentOf[q] /\ reply'[q] = reply[q]

(* Such a step keeps what the invariant says of the messages' places.      *)
LEMMA OneMovesPlaces ==
  ASSUME TypeOK, HistoryInv, NEW r \in Message, OneMoves(r),
         reply'[r] = "ok" => pc'[r] \in {"release", "done"}
  PROVE  /\ TargetsWereBorn' /\ AckedAtEnd'
         /\ \A m \in Message : Saved(m) => m # r /\ Saved(m)'
         /\ \A a \in Requests, s \in Session : Serves(a, s) => Serves(a, s)'
         /\ r \in Requests /\ (\A q \in Message : q \in Requests)
         /\ target[r] \in Session /\ target[r] \in born
         /\ \A q \in Message : reply[q] = "ok" => q # r
  <1>1. /\ r \in Requests /\ \A q \in Message : q \in Requests
        /\ pc[r] # "idle" /\ pc[r] \notin {"release", "done"}
    BY DEF OneMoves, Requests, Critical, BeforeRun, Saving
  <1>2. TargetsWereBorn'
    BY <1>1 DEF HistoryInv, TargetsWereBorn, OneMoves
  <1>3. AckedAtEnd'
    BY <1>1 DEF HistoryInv, AckedAtEnd, OneMoves
  <1>4. \A m \in Message : Saved(m) => m # r /\ Saved(m)'
    BY <1>1 DEF Saved, OneMoves
  <1>5. \A a \in Requests, s \in Session : Serves(a, s) => Serves(a, s)'
    BY <1>1 DEF Serves, OneMoves
  <1>6. target[r] \in Session /\ target[r] \in born
    BY <1>1 DEF TypeOK, BoundWhenUsed, HistoryInv, TargetsWereBorn
  <1>7. \A q \in Message : reply[q] = "ok" => q # r
    BY <1>1 DEF HistoryInv, AckedAtEnd
  <1> QED
    BY <1>1, <1>2, <1>3, <1>4, <1>5, <1>6, <1>7

(* Such a step keeps agents with their sessions, unless it fetches one.    *)
LEMMA AgentsKept ==
  ASSUME TypeOK, HistoryInv, NEW r \in Message, OneMoves(r),
         pc'[r] \notin {"touch", "run"}, instances' = instances
  PROVE  AgentsServeOne'
  <1>1. /\ \A a \in Requests : pc[a] # "idle" => pc'[a] # "idle"
        /\ target' = target
        /\ \A q \in Message : q \in Requests
    BY DEF OneMoves, Requests
  <1>2. ASSUME NEW p \in Replica, NEW s \in Session, instances'[p][s] # None
        PROVE  Serves(instances[p][s], s)'
    <2>1. instances[p][s] \in Requests /\ Serves(instances[p][s], s)
      BY <1>2 DEF HistoryInv, AgentsServeOne, TypeOK, MemoryType, Requests, AgentId
    <2> QED
      BY <1>1, <2>1 DEF Serves
  <1>3. ASSUME NEW q \in Message, pc'[q] \in {"touch", "run"}
        PROVE  Serves(agentOf[q], target[q])'
    <2>1. q # r /\ pc[q] \in {"touch", "run"} /\ agentOf'[q] = agentOf[q]
      BY <1>1, <1>3 DEF OneMoves
    <2>2. agentOf[q] \in Requests /\ Serves(agentOf[q], target[q])
      BY <2>1 DEF HistoryInv, AgentsServeOne, TypeOK, BoundWhenUsed, Requests, AgentId
    <2>3. pc'[agentOf[q]] # "idle" /\ target'[agentOf[q]] = target'[q]
      BY <1>1, <2>2 DEF Serves
    <2> QED
      BY <2>1, <2>3 DEF Serves
  <1> QED
    BY <1>2, <1>3 DEF AgentsServeOne

(* Reread takes what is stored, which the lock keeps as it is.             *)
LEMMA RereadHistory ==
  ASSUME TypeOK, HistoryInv, NEW r \in Message, Reread(r)
  PROVE  HistoryInv'
  <1>1. /\ pc \in [Requests -> PcValues] /\ reply \in [Requests -> Replies]
        /\ data \in [Message -> Record \cup {None}] /\ r \in Requests
        /\ store' = store /\ instances' = instances /\ agents' = agents
    BY DEF TypeOK, ControlType, LocalType, Requests, Reread, redis, memory
  <1>2. OneMoves(r) /\ agentOf' = agentOf
    BY <1>1 DEF OneMoves, Reread, Unwind, Goto, ghost, Requests, Critical, BeforeRun
  <1>3. /\ reply'[r] = "ok" => pc'[r] \in {"release", "done"}
        /\ reply'[r] \in {reply[r], "notfound"}
        /\ pc[r] = "reread"
        /\ \/ pc'[r] = "attach" /\ store[target[r]] # None /\ data'[r] = store[target[r]]
           \/ pc'[r] = "release"
    BY <1>1 DEF Reread, Unwind, Goto, HistoryInv, AckedAtEnd
  <1>4. /\ TargetsWereBorn' /\ AckedAtEnd'
        /\ \A m \in Message : Saved(m) => m # r /\ Saved(m)'
        /\ \A a \in Requests, s \in Session : Serves(a, s) => Serves(a, s)'
        /\ \A q \in Message : q \in Requests
        /\ target[r] \in Session
        /\ \A q \in Message : reply[q] = "ok" => q # r
    BY <1>2, <1>3, OneMovesPlaces
  <1>5. \A q \in Message : reply'[q] = "ok" => reply[q] = "ok" /\ q # r
    BY <1>2, <1>3, <1>4 DEF OneMoves
  <1>6. StoredWereBorn' /\ StoredAreSaved' /\ AckedIsStored'
    BY <1>1, <1>2, <1>4, <1>5
    DEF HistoryInv, StoredWereBorn, StoredAreSaved, AckedIsStored, OneMoves
  <1>7. AgentsServeOne'
    BY <1>1, <1>2, <1>3, AgentsKept
  <1>8. ReadIsStored'
    BY <1>1, <1>2, <1>3, <1>4 DEF HistoryInv, ReadIsStored, OneMoves, Saving
  <1>9. AgentHasRead'
    BY <1>1, <1>2, <1>3, <1>4 DEF HistoryInv, AgentHasRead, OneMoves
  <1>10. ReadAreSaved'
    <2> SUFFICES ASSUME NEW q \in Message, NEW m \in Message,
                        pc'[q] \in Critical \ {"reread"}, Holds(data'[q].hist, m)
                 PROVE  Saved(m)' \/ (m = q /\ pc'[q] \in Saving)
      BY DEF ReadAreSaved
    <2>1. CASE q = r
      BY <1>3, <1>4, <2>1
      DEF HistoryInv, StoredAreSaved, Critical, BeforeRun, Saving
    <2>2. CASE q # r
      BY <1>2, <1>4, <2>2 DEF HistoryInv, ReadAreSaved, OneMoves
    <2> QED
      BY <2>1, <2>2
  <1>11. AckedIsRead'
    <2> SUFFICES ASSUME NEW q \in Message, NEW m \in Message,
                        pc'[q] \in Critical \ {"reread"},
                        \/ reply'[m] = "ok" /\ target'[m] = target'[q]
                        \/ m = q /\ pc'[q] \in Saving
                 PROVE  Holds(data'[q].hist, m)
      BY DEF AckedIsRead
    <2>1. CASE q = r
      BY <1>2, <1>3, <1>5, <2>1
      DEF HistoryInv, AckedIsStored, OneMoves, Critical, BeforeRun, Saving
    <2>2. CASE q # r
      BY <1>2, <1>4, <1>5, <2>2 DEF HistoryInv, AckedIsRead, OneMoves
    <2> QED
      BY <2>1, <2>2
  <1> QED
    BY <1>4, <1>6, <1>7, <1>8, <1>9, <1>10, <1>11 DEF HistoryInv

(* Attach gives its agent the history it has read; nobody else inside a    *)
(* lock has that agent.                                                    *)
LEMMA AttachHistory ==
  ASSUME TypeOK, LockOutlivesHolder, HistoryInv, NEW r \in Message, Attach(r)
  PROVE  HistoryInv'
  <1>1. /\ pc \in [Requests -> PcValues] /\ reply' = reply
        /\ agentOf \in [Message \cup Deletion -> AgentId \cup {None}]
        /\ agents \in [AgentId -> Record]
        /\ instances \in [Replica -> [Session -> AgentId \cup {None}]]
        /\ r \in Requests /\ r \in AgentId
        /\ store' = store /\ data' = data
        /\ pc[r] = "attach" /\ pc'[r] = "touch" /\ data[r] \in Record
    BY DEF TypeOK, ControlType, LocalType, MemoryType, BoundWhenUsed, Requests,
           AgentId, Attach, Goto, redis, Critical, BeforeRun
  <1>2. OneMoves(r)
    BY <1>1 DEF OneMoves, Attach, Goto, ghost, Requests, Critical, BeforeRun
  <1>3. reply'[r] = "ok" => pc'[r] \in {"release", "done"}
    BY <1>1 DEF HistoryInv, AckedAtEnd
  <1>4. /\ TargetsWereBorn' /\ AckedAtEnd'
        /\ \A m \in Message : Saved(m) => m # r /\ Saved(m)'
        /\ \A a \in Requests, s \in Session : Serves(a, s) => Serves(a, s)'
        /\ \A q \in Message : q \in Requests
        /\ target[r] \in Session
    BY <1>2, <1>3, OneMovesPlaces
  <1>5. StoredWereBorn' /\ StoredAreSaved' /\ AckedIsStored'
    BY <1>1, <1>2, <1>4
    DEF HistoryInv, StoredWereBorn, StoredAreSaved, AckedIsStored, OneMoves
  <1>6. home[r] \in Replica
    BY <1>1 DEF TypeOK, BoundWhenUsed
  <1>7. PICK a \in AgentId :
          /\ agentOf'[r] = a /\ Serves(a, target[r])
          /\ agents'[a].hist = data[r].hist
          /\ \A b \in AgentId \ {a} : agents'[b] = agents[b]
          /\ \A p \in Replica, s \in Session :
               \/ instances'[p][s] = instances[p][s]
               \/ instances'[p][s] = r /\ s = target[r]
    <2> DEFINE cached == instances[home[r]][target[r]]
    <2>1. CASE cached # None
      <3>1. cached \in AgentId /\ Serves(cached, target[r])
        BY <1>1, <1>4, <1>6, <2>1 DEF HistoryInv, AgentsServeOne
      <3>2. agents' = [agents EXCEPT ![cached] = Refresh(r, agents[cached])]
        BY <2>1 DEF Attach, Cached
      <3>3. Refresh(r, agents[cached]).hist = data[r].hist
        BY <1>1, <3>1 DEF Refresh, Record
      <3>4. agentOf'[r] = cached /\ instances' = instances
        BY <1>1, <2>1 DEF Attach, Cached
      <3> QED
        BY <1>1, <3>1, <3>2, <3>3, <3>4
    <2>2. CASE cached = None
      <3>1. agents' = [agents EXCEPT ![r] = Refresh(r, Recovered(r))]
        BY <2>2 DEF Attach, Cached
      <3>2. Refresh(r, Recovered(r)).hist = data[r].hist
        BY <1>1 DEF Refresh, Recovered, Record
      <3>3. agentOf'[r] = r /\ instances' = [instances EXCEPT ![home[r]][target[r]] = r]
        BY <1>1, <2>2 DEF Attach, Cached
      <3>4. Serves(r, target[r])
        BY <1>1 DEF Serves
      <3> QED
        BY <1>1, <3>1, <3>2, <3>3, <3>4
    <2> QED
      BY <2>1, <2>2
  <1>8. \A q \in Message \ {r} : pc[q] \in {"touch", "run"} =>
          agentOf[q] \in AgentId /\ agentOf[q] # a
    BY <1>1, <1>7, AgentsApart DEF Serves, TypeOK, BoundWhenUsed, Critical, BeforeRun
  <1>9. AgentsServeOne'
    <2>1. ASSUME NEW p \in Replica, NEW s \in Session, instances'[p][s] # None
          PROVE  Serves(instances[p][s], s)'
      <3>1. CASE instances'[p][s] = instances[p][s]
        <4>1. instances[p][s] \in Requests /\ Serves(instances[p][s], s)
          BY <1>1, <2>1, <3>1 DEF HistoryInv, AgentsServeOne, Requests, AgentId
        <4> QED
          BY <1>4, <3>1, <4>1 DEF Serves
      <3>2. CASE instances'[p][s] = r /\ s = target[r]
        BY <1>1, <1>2, <3>2 DEF Serves, OneMoves
      <3> QED
        BY <1>7, <3>1, <3>2
    <2>2. ASSUME NEW q \in Message, pc'[q] \in {"touch", "run"}
          PROVE  Serves(agentOf[q], target[q])'
      <3>1. CASE q = r
        BY <1>2, <1>4, <1>7, <3>1 DEF OneMoves, Serves, Requests, AgentId
      <3>2. CASE q # r
        <4>1. pc[q] \in {"touch", "run"} /\ q \in Requests
          BY <1>2, <1>4, <2>2, <3>2 DEF OneMoves
        <4>2. Serves(agentOf[q], target[q]) /\ agentOf[q] \in Requests /\ target[q] \in Session
          BY <4>1 DEF HistoryInv, AgentsServeOne, TypeOK, BoundWhenUsed, Requests, AgentId
        <4> QED
          BY <1>2, <1>4, <3>2, <4>2 DEF OneMoves, Serves
      <3> QED
        BY <3>1, <3>2
    <2> QED
      BY <2>1, <2>2 DEF AgentsServeOne
  <1>10. ReadIsStored'
    BY <1>1, <1>2, <1>4 DEF HistoryInv, ReadIsStored, OneMoves, Saving
  <1>11. AgentHasRead'
    <2> SUFFICES ASSUME NEW q \in Message, pc'[q] \in {"touch", "run"}
                 PROVE  agents'[agentOf'[q]].hist = data'[q].hist
      BY DEF AgentHasRead
    <2>1. CASE q = r
      BY <1>1, <1>7, <2>1
    <2>2. CASE q # r
      BY <1>1, <1>2, <1>4, <1>7, <1>8, <2>2 DEF HistoryInv, AgentHasRead, OneMoves
    <2> QED
      BY <2>1, <2>2
  <1>12. ReadAreSaved'
    BY <1>1, <1>2, <1>4 DEF HistoryInv, ReadAreSaved, OneMoves, Critical, BeforeRun, Saving
  <1>13. AckedIsRead'
    BY <1>1, <1>2, <1>4 DEF HistoryInv, AckedIsRead, OneMoves, Critical, BeforeRun, Saving
  <1> QED
    BY <1>4, <1>5, <1>9, <1>10, <1>11, <1>12, <1>13 DEF HistoryInv

(* RunDone adds its message at the end of what it has read.                *)
LEMMA RunDoneHistory ==
  ASSUME TypeOK, LockOutlivesHolder, HistoryInv, NEW r \in Message, RunDone(r)
  PROVE  HistoryInv'
  <1>1. /\ pc \in [Requests -> PcValues] /\ reply' = reply
        /\ agents \in [AgentId -> Record] /\ data \in [Message -> Record \cup {None}]
        /\ instances' = instances /\ agentOf' = agentOf /\ store' = store
        /\ r \in Requests
        /\ pc[r] = "run" /\ pc'[r] = "saveGet"
        /\ data[r] \in Record /\ agentOf[r] \in AgentId
    BY DEF TypeOK, ControlType, LocalType, MemoryType, BoundWhenUsed, Requests,
           AgentId, RunDone, Goto, redis, Critical
  <1>2. OneMoves(r)
    BY <1>1 DEF OneMoves, RunDone, Goto, ghost, Requests, Critical
  <1>3. reply'[r] = "ok" => pc'[r] \in {"release", "done"}
    BY <1>1 DEF HistoryInv, AckedAtEnd
  <1>4. /\ TargetsWereBorn' /\ AckedAtEnd'
        /\ \A m \in Message : Saved(m) => m # r /\ Saved(m)'
        /\ \A a \in Requests, s \in Session : Serves(a, s) => Serves(a, s)'
        /\ \A q \in Message : q \in Requests
        /\ target[r] \in Session
    BY <1>2, <1>3, OneMovesPlaces
  <1>5. StoredWereBorn' /\ StoredAreSaved' /\ AckedIsStored'
    BY <1>1, <1>2, <1>4
    DEF HistoryInv, StoredWereBorn, StoredAreSaved, AckedIsStored, OneMoves
  <1>6. /\ data[r].hist \in Seq(Message)
        /\ data'[r].hist = Append(data[r].hist, r)
        /\ \A b \in AgentId \ {agentOf[r]} : agents'[b] = agents[b]
    <2>1. agents[agentOf[r]].hist = data[r].hist
      BY <1>1 DEF HistoryInv, AgentHasRead
    <2> QED
      BY <1>1, <2>1 DEF RunDone, Record
  <1>7. \A q \in Message \ {r} : pc[q] \in {"touch", "run"} =>
          agentOf[q] \in AgentId /\ agentOf[q] # agentOf[r]
    BY <1>1, AgentsApart
    DEF HistoryInv, AgentsServeOne, Serves, TypeOK, BoundWhenUsed, Critical
  <1>8. AgentsServeOne'
    BY <1>1, <1>2, <1>3, AgentsKept
  <1>9. ReadIsStored'
    <2> SUFFICES ASSUME NEW q \in Message, store[target[q]] # None
                 PROVE  /\ pc'[q] \in {"attach", "touch", "run"} =>
                             store[target[q]].hist = data'[q].hist
                        /\ pc'[q] \in Saving =>
                             data'[q].hist = Append(store[target[q]].hist, q)
      BY <1>1, <1>2 DEF ReadIsStored, OneMoves
    <2>1. CASE q = r
      BY <1>1, <1>6, <2>1 DEF HistoryInv, ReadIsStored
    <2>2. CASE q # r
      BY <1>2, <1>4, <2>2 DEF HistoryInv, ReadIsStored, OneMoves
    <2> QED
      BY <2>1, <2>2
  <1>10. AgentHasRead'
    BY <1>1, <1>2, <1>4, <1>6, <1>7 DEF HistoryInv, AgentHasRead, OneMoves
  <1>11. \A m : Holds(data'[r].hist, m) <=> Holds(data[r].hist, m) \/ m = r
    BY <1>6, HoldsAppend
  <1>12. ReadAreSaved'
    <2> SUFFICES ASSUME NEW q \in Message, NEW m \in Message,
                        pc'[q] \in Critical \ {"reread"}, Holds(data'[q].hist, m)
                 PROVE  Saved(m)' \/ (m = q /\ pc'[q] \in Saving)
      BY DEF ReadAreSaved
    <2>1. CASE q = r
      BY <1>1, <1>4, <1>11, <2>1 DEF HistoryInv, ReadAreSaved, Saving, Critical
    <2>2. CASE q # r
      BY <1>2, <1>4, <2>2 DEF HistoryInv, ReadAreSaved, OneMoves
    <2> QED
      BY <2>1, <2>2
  <1>13. AckedIsRead'
    <2> SUFFICES ASSUME NEW q \in Message, NEW m \in Message,
                        pc'[q] \in Critical \ {"reread"},
                        \/ reply[m] = "ok" /\ target[m] = target[q]
                        \/ m = q /\ pc'[q] \in Saving
                 PROVE  Holds(data'[q].hist, m)
      BY <1>1, <1>2 DEF AckedIsRead, OneMoves
    <2>1. CASE q = r
      BY <1>1, <1>11, <2>1 DEF HistoryInv, AckedIsRead, Critical
    <2>2. CASE q # r
      BY <1>2, <1>4, <2>2 DEF HistoryInv, AckedIsRead, OneMoves
    <2> QED
      BY <2>1, <2>2
  <1> QED
    BY <1>4, <1>5, <1>8, <1>9, <1>10, <1>12, <1>13 DEF HistoryInv

(* SaveSet stores what its message has read and its own message; nobody    *)
(* else has read that session.                                             *)
LEMMA SaveSetHistory ==
  ASSUME TypeOK, LockOutlivesHolder, HistoryInv,
         NEW r \in Message, NEW heard \in BOOLEAN, SaveSet(r, heard)
  PROVE  HistoryInv'
  <1>1. /\ pc \in [Requests -> PcValues] /\ reply \in [Requests -> Replies]
        /\ store \in [Session -> Record \cup {None}]
        /\ instances' = instances /\ agentOf' = agentOf /\ agents' = agents /\ data' = data
        /\ r \in Requests
        /\ pc[r] = "saveSet" /\ pc'[r] = "release" /\ reply'[r] \in {"ok", "error"}
        /\ store' = [store EXCEPT ![target[r]] = data[r]]
    BY DEF TypeOK, ControlType, LocalType, RedisType, Requests,
           SaveSet, Write, Unwind, Goto, memory, local
  <1>2. OneMoves(r)
    BY <1>1 DEF OneMoves, SaveSet, Unwind, Goto, local, ghost, Requests, Critical, Saving
  <1>3. /\ TargetsWereBorn' /\ AckedAtEnd'
        /\ \A m \in Message : Saved(m) => m # r /\ Saved(m)'
        /\ \A a \in Requests, s \in Session : Serves(a, s) => Serves(a, s)'
        /\ \A q \in Message : q \in Requests
        /\ target[r] \in Session /\ target[r] \in born
    BY <1>1, <1>2, OneMovesPlaces
  <1>4. \A q \in Message \ {r} : pc[q] \in Critical => target[q] # target[r]
    BY <1>1 DEF LockOutlivesHolder, Critical, Saving
  <1>5. Saved(r)'
    BY <1>1 DEF Saved
  <1>6. StoredWereBorn'
    BY <1>1, <1>2, <1>3 DEF HistoryInv, StoredWereBorn, OneMoves
  <1>7. AgentsServeOne'
    BY <1>1, <1>2, <1>3, AgentsKept
  <1>8. \A q \in Message : pc'[q] \in Critical =>
          /\ q # r /\ pc'[q] = pc[q] /\ target'[q] = target[q] /\ target[q] # target[r]
          /\ target[q] \in Session /\ store'[target[q]] = store[target[q]]
    <2> SUFFICES ASSUME NEW q \in Message, pc'[q] \in Critical
                 PROVE  /\ q # r /\ pc'[q] = pc[q] /\ target'[q] = target[q]
                        /\ target[q] # target[r]
                        /\ target[q] \in Session /\ store'[target[q]] = store[target[q]]
      OBVIOUS
    <2>1. q # r
      BY <1>1 DEF Critical, BeforeRun, Saving
    <2>2. pc'[q] = pc[q] /\ target'[q] = target[q] /\ target[q] # target[r]
      BY <1>2, <1>3, <1>4, <2>1 DEF OneMoves
    <2>3. target[q] \in Session
      BY <1>3, <2>2 DEF TypeOK, BoundWhenUsed, Critical, BeforeRun, Saving
    <2> QED
      BY <1>1, <2>1, <2>2, <2>3
  <1>9. ReadIsStored'
    BY <1>1, <1>8 DEF HistoryInv, ReadIsStored, Critical, BeforeRun, Saving
  <1>10. AgentHasRead'
    BY <1>1, <1>8 DEF HistoryInv, AgentHasRead, Critical, BeforeRun
  <1>11. StoredAreSaved'
    <2> SUFFICES ASSUME NEW s \in Session, NEW m \in Message,
                        store'[s] # None, Holds(store'[s].hist, m)
                 PROVE  Saved(m)'
      BY DEF StoredAreSaved
    <2>1. CASE s = target[r]
      <3>1. Holds(data[r].hist, m)
        BY <1>1, <1>3, <2>1
      <3>2. Saved(m) \/ m = r
        BY <1>1, <3>1 DEF HistoryInv, ReadAreSaved, Critical, Saving
      <3> QED
        BY <1>3, <1>5, <3>2
    <2>2. CASE s # target[r]
      BY <1>1, <1>3, <2>2 DEF HistoryInv, StoredAreSaved
    <2> QED
      BY <2>1, <2>2
  <1>12. ReadAreSaved'
    BY <1>1, <1>3, <1>8 DEF HistoryInv, ReadAreSaved
  <1>13. AckedIsStored'
    <2> SUFFICES ASSUME NEW m \in Message, reply'[m] = "ok", store'[target[m]] # None
                 PROVE  Holds(store'[target[m]].hist, m)
      BY <1>2 DEF AckedIsStored, OneMoves
    <2>1. m = r \/ reply[m] = "ok"
      BY <1>2 DEF OneMoves
    <2>2. CASE target[m] = target[r]
      <3>1. Holds(data[r].hist, m)
        BY <1>1, <2>1, <2>2 DEF HistoryInv, AckedIsRead, Critical, Saving
      <3> QED
        BY <1>1, <1>3, <2>2, <3>1
    <2>3. CASE target[m] # target[r]
      <3>1. reply[m] = "ok" /\ pc[m] \in {"release", "done"}
        BY <2>1, <2>3 DEF HistoryInv, AckedAtEnd
      <3>2. target[m] \in Session
        BY <1>3, <3>1 DEF TypeOK, BoundWhenUsed
      <3> QED
        BY <1>1, <2>3, <3>1, <3>2 DEF HistoryInv, AckedIsStored
    <2> QED
      BY <2>2, <2>3
  <1>14. AckedIsRead'
    <2> SUFFICES ASSUME NEW q \in Message, NEW m \in Message,
                        pc'[q] \in Critical \ {"reread"},
                        \/ reply'[m] = "ok" /\ target'[m] = target'[q]
                        \/ m = q /\ pc'[q] \in Saving
                 PROVE  Holds(data[q].hist, m)
      BY <1>1 DEF AckedIsRead
    <2>1. q # r /\ pc'[q] = pc[q] /\ target[q] # target[r]
      BY <1>8
    <2>2. \/ reply[m] = "ok" /\ target[m] = target[q]
          \/ m = q /\ pc[q] \in Saving
      BY <1>2, <2>1 DEF OneMoves
    <2> QED
      BY <2>1, <2>2 DEF HistoryInv, AckedIsRead
  <1> QED
    BY <1>3, <1>6, <1>7, <1>9, <1>10, <1>11, <1>12, <1>13, <1>14 DEF HistoryInv

(* A step writes no history, or leaves Redis alone, or is a save.          *)
LEMMA StepKinds ==
  ASSUME TypeOK, LockOutlivesHolder, HistoryInv, [Next]_vars
  PROVE  \/ WritesNothing
         \/ UNCHANGED vars
         \/ \E r \in Message : Reread(r) \/ Attach(r) \/ RunDone(r)
         \/ \E r \in Message, heard \in BOOLEAN : SaveSet(r, heard)
  <1>1. ASSUME NEW r \in Message, MessageStep(r)
        PROVE  \/ WritesNothing
               \/ Reread(r) \/ Attach(r) \/ RunDone(r)
               \/ \E heard \in BOOLEAN : SaveSet(r, heard)
    BY <1>1, ArriveHarmless, AcquireHarmless, TouchHarmless, RunTimeoutHarmless,
       RunFailsHarmless, SaveGetHarmless, ReleaseHarmless, FailHarmless
    DEF MessageStep
  <1>2. ASSUME NEW d \in Deletion, DeletionStep(d)
        PROVE  WritesNothing
    BY <1>2, DelLookupHarmless, PopHarmless, DelHarmless, CloseHarmless DEF DeletionStep
  <1>3. ASSUME NEW c \in Creation, CreationStep(c)
        PROVE  WritesNothing
    BY <1>3, CreateStoreHarmless, InstallHarmless, InstallFailsHarmless DEF CreationStep
  <1> QED
    BY <1>1, <1>2, <1>3, TickHarmless, CrashHarmless DEF Next

(* No step breaks the invariant.                                           *)
LEMMA HistoryStep ==
  ASSUME TypeOK, TypeOK', LockOutlivesHolder, HistoryInv, [Next]_vars
  PROVE  HistoryInv'
  <1>1. CASE UNCHANGED vars
    BY <1>1
    DEF vars, redis, memory, local, ghost, HistoryInv, TargetsWereBorn, StoredWereBorn,
        AgentsServeOne, Serves, ReadIsStored, AgentHasRead, StoredAreSaved, ReadAreSaved,
        Saved, AckedAtEnd, AckedIsStored, AckedIsRead
  <1> QED
    BY <1>1, StepKinds, NothingWritten, RereadHistory, AttachHistory, RunDoneHistory,
       SaveSetHistory

(* At the start no request has done anything and all histories are empty.  *)
LEMMA HistoryInit ==
  ASSUME Init
  PROVE  HistoryInv
  <1>1. /\ \A q \in Message : q \in Requests
        /\ \A q \in Requests : pc[q] = "idle" /\ reply[q] = None
        /\ \A p \in Replica, s \in Session : instances[p][s] = None
        /\ \A s \in Session : store[s] # None => s \in born /\ store[s] = Blank
    BY DEF Init, Requests
  <1>2. \A m : ~Holds(Blank.hist, m)
    BY DEF Blank, Holds
  <1>3. \A r \in Message : reply[r] # "ok"
    BY <1>1, NoneIsNoOutcome DEF Outcomes
  <1> QED
    BY <1>1, <1>2, <1>3
    DEF HistoryInv, TargetsWereBorn, StoredWereBorn, AgentsServeOne, ReadIsStored, AgentHasRead,
        StoredAreSaved, ReadAreSaved, AckedAtEnd, AckedIsStored, AckedIsRead,
        Critical, BeforeRun, Saving

(* Everything above holds of every reachable state.                        *)
THEOREM HistoryHolds == Spec => []HistoryInv
  <1>1. Init => HistoryInv
    BY HistoryInit
  <1>2. TypeOK /\ TypeOK' /\ LockOutlivesHolder /\ HistoryInv /\ [Next]_vars => HistoryInv'
    BY HistoryStep
  <1> QED
    BY <1>1, <1>2, TypeCorrect, LockAlwaysOutlives, PTL DEF Spec

(* A message acknowledged to its client is in the history for as long as   *)
(* the session exists, whatever else is sent, deleted, expires or crashes. *)
THEOREM AcknowledgedStays == Spec => []AckedIsStored
  <1>1. HistoryInv => AckedIsStored
    BY DEF HistoryInv
  <1> QED
    BY <1>1, HistoryHolds, PTL

(* A message that was refused or timed out is in no history.               *)
THEOREM RefusedStaysOut == Spec => []RejectedNotStored
  <1>1. HistoryInv => RejectedNotStored
    BY DEF HistoryInv, RejectedNotStored, StoredAreSaved, Saved
  <1> QED
    BY <1>1, HistoryHolds, PTL

(* What one step makes of a history that is there before and after it.     *)
LEMMA HistoryGrows ==
  ASSUME TypeOK, LockOutlivesHolder, HistoryInv, [Next]_vars,
         NEW s \in Session, store[s] # None, store'[s] # None
  PROVE  \/ store'[s].hist = store[s].hist
         \/ \E m \in Message : store'[s].hist = Append(store[s].hist, m)
  <1>1. CASE WritesNothing
    BY <1>1 DEF WritesNothing, HistoryInv, StoredWereBorn
  <1>2. CASE UNCHANGED vars
    BY <1>2 DEF vars, redis
  <1>3. CASE \E r \in Message : Reread(r) \/ Attach(r) \/ RunDone(r)
    BY <1>3 DEF Reread, Attach, RunDone, redis
  <1>4. ASSUME NEW r \in Message, NEW heard \in BOOLEAN, SaveSet(r, heard)
        PROVE  \/ store'[s].hist = store[s].hist
               \/ store'[s].hist = Append(store[s].hist, r)
    <2>1. store' = [store EXCEPT ![target[r]] = data[r]] /\ pc[r] \in Saving
      BY <1>4 DEF SaveSet, Write, Saving
    <2> QED
      BY <2>1 DEF TypeOK, RedisType, HistoryInv, ReadIsStored
  <1> QED
    BY <1>1, <1>2, <1>3, <1>4, StepKinds

(* No save drops what another one stored.                                  *)
THEOREM UpdatesAreKept == Spec => NoLostUpdate
  <1>1. TypeOK /\ LockOutlivesHolder /\ HistoryInv /\ [Next]_vars =>
          [\A s \in Session :
             store[s] # None /\ store'[s] # None =>
               \/ store'[s].hist = store[s].hist
               \/ \E m \in Message : store'[s].hist = Append(store[s].hist, m)]_vars
    BY HistoryGrows
  <1> QED
    BY <1>1, TypeCorrect, LockAlwaysOutlives, HistoryHolds, PTL DEF Spec, NoLostUpdate

(* Who is inside after a step that writes no history was so before, with   *)
(* the same session.                                                       *)
LEMMA InsideBefore ==
  ASSUME TypeOK, HistoryInv, WritesNothing, NEW q \in Message, pc'[q] \in Critical \ {"reread"}
  PROVE  /\ pc[q] \in Critical \ {"reread"} /\ data'[q] = data[q]
         /\ target'[q] = target[q] /\ target[q] \in Session /\ target[q] \in born
         /\ pc'[q] \in {"touch", "run"} => pc[q] \in {"touch", "run"} /\ agentOf'[q] = agentOf[q]
  <1>1. /\ pc[q] \in Critical \ {"reread"}
        /\ pc'[q] \in {"touch", "run"} => pc[q] \in {"touch", "run"}
    BY DEF WritesNothing, Onward, Critical, BeforeRun, Saving
  <1>2. pc[q] # "idle" /\ q \in Requests
    BY <1>1 DEF Critical, BeforeRun, Saving, Requests
  <1> QED
    BY <1>1, <1>2, HistoryTypes DEF WritesNothing

-----------------------------------------------------------------------------
(* Sessions are kept apart: a history has only what was sent to its own    *)
(* session, and that once.  The record a message works on has to be such a *)
(* history too, since it is what the message will write.                   *)
ReadsAreOwn ==
  \A r \in Message :
    pc[r] \in Critical \ {"reread"} => OwnHistory(target[r], data[r].hist)

(* Such a history of messages that will not change their session any more. *)
SettledHistory(s, h) ==
  /\ h \in Seq(Message)
  /\ OwnHistory(s, h)
  /\ \A m \in Message : Holds(h, m) => pc[m] \in Critical \cup Leaving

(* The histories that are stored and read are settled.                     *)
LEMMA OwnSoFar ==
  ASSUME TypeOK, HistoryInv, HistoriesAreOwn, ReadsAreOwn
  PROVE  /\ \A s \in Session : store[s] # None => SettledHistory(s, store[s].hist)
         /\ \A r \in Message : pc[r] \in Critical \ {"reread"} =>
              /\ SettledHistory(target[r], data[r].hist)
              /\ pc[r] \notin Saving => ~Holds(data[r].hist, r)
  <1>1. \A m \in Message : Saved(m) => pc[m] \in Leaving
    BY DEF Saved, Leaving
  <1>2. /\ \A s \in Session : store[s] # None => store[s].hist \in Seq(Message)
        /\ \A r \in Message :
             pc[r] \in Critical \ {"reread"} => data[r].hist \in Seq(Message)
    BY DEF TypeOK, RedisType, BoundWhenUsed, Record
  <1>3. \A s \in Session : store[s] # None => SettledHistory(s, store[s].hist)
    BY <1>1, <1>2 DEF HistoryInv, StoredAreSaved, HistoriesAreOwn, SettledHistory
  <1>4. \A r \in Message : pc[r] \in Critical \ {"reread"} =>
          SettledHistory(target[r], data[r].hist)
    BY <1>1, <1>2 DEF HistoryInv, ReadAreSaved, ReadsAreOwn, SettledHistory
  <1>5. \A r \in Message :
          pc[r] \in Critical \ {"reread"} /\ pc[r] \notin Saving => ~Holds(data[r].hist, r)
    BY <1>1 DEF HistoryInv, ReadAreSaved, Leaving, Critical, BeforeRun, Saving
  <1> QED
    BY <1>3, <1>4, <1>5

(* A message that was not in its session's history may be added to it.     *)
LEMMA OwnAppend ==
  ASSUME NEW h \in Seq(Message), NEW r \in Message, OwnHistory(target[r], h), ~Holds(h, r)
  PROVE  OwnHistory(target[r], Append(h, r))
  <1>1. /\ DOMAIN h = 1 .. Len(h) /\ Len(h) \in Nat
        /\ DOMAIN Append(h, r) = 1 .. Len(h) + 1
        /\ Append(h, r)[Len(h) + 1] = r
        /\ \A i \in 1 .. Len(h) : Append(h, r)[i] = h[i]
    OBVIOUS
  <1>2. \A i \in 1 .. Len(h) + 1 : i \in 1 .. Len(h) \/ i = Len(h) + 1
    BY <1>1
  <1>3. \A i \in 1 .. Len(h) : h[i] # r /\ target[h[i]] = target[r]
    BY <1>1 DEF Holds, OwnHistory
  <1>4. \A i, j \in 1 .. Len(h) : h[i] = h[j] => i = j
    BY <1>1 DEF OwnHistory
  <1> QED
    BY <1>1, <1>2, <1>3, <1>4 DEF OwnHistory

(* What a step leaves stored, and read, was settled before it, but for the *)
(* message that a run adds.                                                *)
LEMMA StoredWasSettled ==
  ASSUME TypeOK, LockOutlivesHolder, HistoryInv, HistoriesAreOwn, ReadsAreOwn, [Next]_vars,
         NEW s \in Session, store'[s] # None
  PROVE  SettledHistory(s, store'[s].hist)
  <1>1. CASE store'[s] = store[s]
    BY <1>1, OwnSoFar
  <1>2. CASE store'[s] = Blank
    BY <1>2 DEF Blank, SettledHistory, OwnHistory, Holds
  <1>3. ASSUME NEW r \in Message, NEW heard \in BOOLEAN, SaveSet(r, heard), store'[s] # store[s]
        PROVE  SettledHistory(s, store'[s].hist)
    <2>1. /\ store' = [store EXCEPT ![target[r]] = data[r]]
          /\ pc[r] \in Critical \ {"reread"}
      BY <1>3 DEF SaveSet, Write, Critical, BeforeRun, Saving
    <2>2. s = target[r] /\ store'[s] = data[r]
      BY <1>3, <2>1, HistoryTypes
    <2> QED
      BY <2>1, <2>2, OwnSoFar
  <1>4. store'[s] \in {store[s], Blank}
        \/ \E r \in Message, heard \in BOOLEAN : SaveSet(r, heard)
    BY StepKinds DEF WritesNothing, Reread, Attach, RunDone, vars, redis
  <1> QED
    BY <1>1, <1>2, <1>3, <1>4

LEMMA ReadWasSettled ==
  ASSUME TypeOK, LockOutlivesHolder, HistoryInv, HistoriesAreOwn, ReadsAreOwn, [Next]_vars,
         NEW q \in Message, pc'[q] \in Critical \ {"reread"}
  PROVE  pc[q] \in Critical /\ SettledHistory(target[q], data'[q].hist)
  <1>0. /\ pc \in [Requests -> PcValues] /\ q \in Requests
        /\ data \in [Message -> Record \cup {None}]
    BY DEF TypeOK, ControlType, LocalType, Requests
  <1>1. CASE pc[q] \in Critical \ {"reread"} /\ data'[q] = data[q]
    BY <1>1, OwnSoFar
  <1>2. CASE WritesNothing
    BY <1>1, <1>2, InsideBefore DEF WritesNothing
  <1>3. CASE UNCHANGED vars
    BY <1>1, <1>3 DEF vars, local
  <1>4. ASSUME NEW r \in Message, Reread(r)
        PROVE  pc[q] \in Critical /\ SettledHistory(target[q], data'[q].hist)
    <2>1. CASE q # r
      <3>1. pc'[q] = pc[q] /\ data'[q] = data[q]
        BY <1>0, <1>4, <2>1 DEF Reread, Unwind, Goto
      <3> QED
        BY <1>1, <3>1
    <2>2. CASE q = r
      <3>1. pc[q] = "reread" /\ data'[q] = store[target[q]] /\ store[target[q]] # None
        BY <1>0, <1>4, <2>2 DEF Reread, Unwind, Goto, Critical, BeforeRun, Saving
      <3>2. target[q] \in Session
        BY <1>0, <3>1, HistoryTypes
      <3> QED
        BY <3>1, <3>2, OwnSoFar DEF Critical, BeforeRun
    <2> QED
      BY <2>1, <2>2
  <1>5. ASSUME NEW r \in Message, Attach(r)
        PROVE  pc[q] \in Critical /\ SettledHistory(target[q], data'[q].hist)
    <2>1. pc[q] \in Critical \ {"reread"} /\ data'[q] = data[q]
      BY <1>0, <1>5 DEF Attach, Goto, Critical, BeforeRun
    <2> QED
      BY <1>1, <2>1
  <1>6. ASSUME NEW r \in Message, RunDone(r)
        PROVE  pc[q] \in Critical /\ SettledHistory(target[q], data'[q].hist)
    <2>1. CASE q # r
      <3>1. pc'[q] = pc[q] /\ data'[q] = data[q]
        BY <1>0, <1>6, <2>1 DEF RunDone, Goto
      <3> QED
        BY <1>1, <3>1
    <2>2. CASE q = r
      <3>1. pc[q] = "run" /\ data'[q].hist = Append(agents[agentOf[q]].hist, q)
        BY <1>0, <1>6, <2>2 DEF RunDone
      <3>2. data'[q].hist = Append(data[q].hist, q)
        BY <3>1 DEF HistoryInv, AgentHasRead
      <3>3. /\ SettledHistory(target[q], data[q].hist) /\ ~Holds(data[q].hist, q)
            /\ pc[q] \in Critical
        BY <3>1, OwnSoFar DEF Critical, BeforeRun, Saving
      <3>4. OwnHistory(target[q], Append(data[q].hist, q))
        BY <3>3, OwnAppend DEF SettledHistory
      <3>5. \A m : Holds(Append(data[q].hist, q), m) => Holds(data[q].hist, m) \/ m = q
        BY <3>3, HoldsAppend DEF SettledHistory
      <3>6. Append(data[q].hist, q) \in Seq(Message)
        BY <3>3 DEF SettledHistory
      <3> QED
        BY <3>2, <3>3, <3>4, <3>5, <3>6 DEF SettledHistory
    <2> QED
      BY <2>1, <2>2
  <1>7. ASSUME NEW r \in Message, NEW heard \in BOOLEAN, SaveSet(r, heard)
        PROVE  pc[q] \in Critical /\ SettledHistory(target[q], data'[q].hist)
    <2>1. pc[q] \in Critical \ {"reread"} /\ data'[q] = data[q]
      BY <1>0, <1>7 DEF SaveSet, Unwind, Goto, local, Critical, BeforeRun, Saving
    <2> QED
      BY <1>1, <2>1
  <1> QED
    BY <1>2, <1>3, <1>4, <1>5, <1>6, <1>7, StepKinds

(* What is settled stays its session's own.                                *)
LEMMA SettledStays ==
  ASSUME TypeOK, [Next]_vars, NEW s, NEW h, SettledHistory(s, h)
  PROVE  \A i \in DOMAIN h :
           /\ target'[h[i]] = s
           /\ \A j \in DOMAIN h : h[j] = h[i] => j = i
  <1> SUFFICES ASSUME NEW i \in DOMAIN h
               PROVE  target'[h[i]] = s
    BY DEF SettledHistory, OwnHistory
  <1>1. h[i] \in Message /\ Holds(h, h[i]) /\ target[h[i]] = s
    BY DEF Holds, SettledHistory, OwnHistory
  <1>2. pc[h[i]] \in Critical \cup Leaving
    BY <1>1 DEF SettledHistory
  <1> QED
    BY <1>1, <1>2, InsideOrBehind

LEMMA OwnStep ==
  ASSUME TypeOK, LockOutlivesHolder, HistoryInv, HistoriesAreOwn, ReadsAreOwn, [Next]_vars
  PROVE  HistoriesAreOwn' /\ ReadsAreOwn'
  <1>1. ASSUME NEW s \in Session, store'[s] # None
        PROVE  OwnHistory(s, store[s].hist)'
    <2>1. PICK h : h = store'[s].hist
      OBVIOUS
    <2>2. SettledHistory(s, h)
      BY <1>1, <2>1, StoredWasSettled
    <2> QED
      BY <2>1, <2>2, SettledStays DEF OwnHistory
  <1>2. ASSUME NEW q \in Message, pc'[q] \in Critical \ {"reread"}
        PROVE  OwnHistory(target[q], data[q].hist)'
    <2>1. PICK h : h = data'[q].hist
      OBVIOUS
    <2>2. PICK s : s = target[q]
      OBVIOUS
    <2>3. pc[q] \in Critical /\ SettledHistory(s, h)
      BY <1>2, <2>1, <2>2, ReadWasSettled
    <2>4. target'[q] = s
      BY <2>2, <2>3, InsideOrBehind
    <2> QED
      BY <2>1, <2>3, <2>4, SettledStays DEF OwnHistory
  <1> QED
    BY <1>1, <1>2 DEF HistoriesAreOwn, ReadsAreOwn

(* No session ever shows what was said in another one, nor anything twice, *)
(* however many share a process, its cache and its agents' lives.          *)
THEOREM HistoriesStayOwn == Spec => []HistoriesAreOwn
  <1>1. Init => HistoriesAreOwn /\ ReadsAreOwn
    <2> SUFFICES ASSUME Init
                 PROVE  HistoriesAreOwn /\ ReadsAreOwn
      OBVIOUS
    <2>1. /\ \A s \in Session : store[s] # None => store[s] = Blank
          /\ \A q \in Message : pc[q] = "idle"
          /\ DOMAIN Blank.hist = {}
      BY DEF Init, Requests, Blank
    <2> QED
      BY <2>1 DEF HistoriesAreOwn, OwnHistory, ReadsAreOwn, Critical, BeforeRun, Saving
  <1>2. TypeOK /\ LockOutlivesHolder /\ HistoryInv /\ HistoriesAreOwn /\ ReadsAreOwn /\ [Next]_vars
          => HistoriesAreOwn' /\ ReadsAreOwn'
    BY OwnStep
  <1> QED
    BY <1>1, <1>2, TypeCorrect, LockAlwaysOutlives, HistoryHolds, PTL DEF Spec

-----------------------------------------------------------------------------
(* The usage stored for a session covers its history, on one replica: with *)
(* two of them the cache of one does not know of the runs of the other     *)
(* (the run usage_replicas).  The argument: the agent that is cached has   *)
(* been charged for all that is stored and for all that the message inside *)
(* the lock has read, so it never falls behind.                            *)

(* Nobody has heard of a session whose creation is not yet answered.       *)
FreshUntilTold ==
  \A c \in Creation :
    /\ pc[c] \in {"idle", "install"} => reply[c] # "ok"
    /\ pc[c] = "install" =>
         /\ \A q \in Requests \ {c} : pc[q] # "idle" => target[q] # target[c]
         /\ store[target[c]] # None => store[target[c]].hist = << >>

(* What the steps have in common that let no request in.                   *)
LetsNobodyIn ==
  /\ \A q \in Requests : pc'[q] # "idle" => pc[q] # "idle" /\ target'[q] = target[q]
  /\ \A c \in Creation :
       pc'[c] \in {"idle", "install"} => pc[c] = pc'[c] /\ reply'[c] = reply[c]
  /\ \A s \in Session :
       \/ store'[s] \in {store[s], None}
       \/ \E q \in Message : pc[q] # "idle" /\ target[q] = s

(* Such a step keeps new sessions fresh.                                   *)
LEMMA StaysFresh ==
  ASSUME TypeOK, HistoryInv, FreshUntilTold, LetsNobodyIn
  PROVE  FreshUntilTold'
  <1> SUFFICES ASSUME NEW c \in Creation, pc'[c] \in {"idle", "install"}
               PROVE  /\ reply'[c] # "ok"
                      /\ pc'[c] = "install" =>
                           /\ \A q \in Requests \ {c} : pc'[q] # "idle" => target'[q] # target'[c]
                           /\ store'[target'[c]] # None => store'[target'[c]].hist = << >>
    BY DEF FreshUntilTold
  <1>1. reply'[c] # "ok"
    BY DEF LetsNobodyIn, FreshUntilTold
  <1>2. CASE pc'[c] = "install"
    <2>1. pc[c] = "install" /\ target'[c] = target[c] /\ target[c] \in Session /\ c \in Requests
      BY <1>2, HistoryTypes DEF LetsNobodyIn
    <2>2. \A q \in Requests \ {c} : pc'[q] # "idle" => target'[q] # target[c]
      BY <2>1 DEF LetsNobodyIn, FreshUntilTold
    <2>3. store'[target[c]] \in {store[target[c]], None}
      BY <2>1, HistoryTypes, DisjointRequests DEF LetsNobodyIn, FreshUntilTold
    <2> QED
      BY <1>1, <2>1, <2>2, <2>3 DEF FreshUntilTold
  <1> QED
    BY <1>1, <1>2

(* A message that is in moves nobody else, and writes its own session.     *)
LEMMA MessagesLetNobodyIn ==
  ASSUME TypeOK, HistoryInv, NEW r \in Message, MessageStep(r)
  PROVE  LetsNobodyIn \/ \E p \in Replica, s \in Session : Arrive(r, p, s)
  <1>1. /\ pc \in [Requests -> PcValues] /\ reply \in [Requests -> Replies] /\ r \in Requests
        /\ store \in [Session -> Record \cup {None}]
        /\ r \notin Creation /\ Creation \subseteq Requests
    BY HistoryTypes, DisjointRequests
  <1>2. ASSUME pc[r] # "idle", target' = target,
               \E l \in PcValues : pc' = [pc EXCEPT ![r] = l] /\ l # "idle",
               reply' = reply \/ \E v : reply' = [reply EXCEPT ![r] = v],
               store' = store \/ \E v : store' = [store EXCEPT ![target[r]] = v]
        PROVE  LetsNobodyIn
    BY <1>1, <1>2 DEF LetsNobodyIn
  <1>3. ASSUME NEW heard \in BOOLEAN, Acquire(r, heard)
        PROVE  LetsNobodyIn
    BY <1>2, <1>3 DEF Acquire, Finish, Goto, local, PcValues, Critical, BeforeRun
  <1>4. CASE Reread(r)
    BY <1>2, <1>4 DEF Reread, Unwind, Goto, redis, PcValues, Critical, BeforeRun
  <1>5. CASE Attach(r)
    BY <1>2, <1>5 DEF Attach, Goto, redis, PcValues, Critical, BeforeRun
  <1>6. CASE Touch(r)
    BY <1>2, <1>6 DEF Touch, Goto, local, PcValues, Critical
  <1>7. CASE RunDone(r)
    BY <1>2, <1>7 DEF RunDone, Goto, redis, PcValues, Critical, Saving
  <1>8. CASE RunTimeout(r) \/ RunFails(r)
    BY <1>2, <1>8 DEF RunTimeout, RunFails, Unwind, Goto, redis, local, PcValues
  <1>9. CASE SaveGet(r)
    BY <1>2, <1>9 DEF SaveGet, Unwind, Goto, redis, local, PcValues, Critical, Saving
  <1>10. ASSUME NEW heard \in BOOLEAN, SaveSet(r, heard)
         PROVE  LetsNobodyIn
    BY <1>2, <1>10 DEF SaveSet, Write, Unwind, Goto, local, PcValues
  <1>11. ASSUME NEW done \in BOOLEAN, NEW heard \in BOOLEAN, Release(r, done, heard)
         PROVE  LetsNobodyIn
    BY <1>2, <1>11 DEF Release, Finish, Goto, local, PcValues
  <1>12. CASE Fail(r)
    BY <1>2, <1>12
    DEF Fail, Unwind, Finish, Goto, redis, local, PcValues, Waiting, Critical, BeforeRun, Saving
  <1> QED
    BY <1>3, <1>4, <1>5, <1>6, <1>7, <1>8, <1>9, <1>10, <1>11, <1>12 DEF MessageStep

(* Neither do the other requests, once they are in.                        *)
LEMMA OthersLetNobodyIn ==
  ASSUME TypeOK, HistoryInv
  PROVE  /\ \A d \in Deletion :
              DeletionStep(d) =>
                LetsNobodyIn \/ \E p \in Replica, s \in Session : DelLookup(d, p, s)
         /\ \A c \in Creation :
              CreationStep(c) =>
                LetsNobodyIn \/ \E p \in Replica, s \in Session : CreateStore(c, p, s)
         /\ Tick => LetsNobodyIn
         /\ \A p \in Replica : Crash(p) => LetsNobodyIn
         /\ UNCHANGED vars => LetsNobodyIn
  <1>1. /\ pc \in [Requests -> PcValues] /\ reply \in [Requests -> Replies]
        /\ store \in [Session -> Record \cup {None}]
        /\ Deletion \subseteq Requests /\ Creation \subseteq Requests
        /\ Deletion \cap Creation = {}
    BY HistoryTypes, DisjointRequests
  <1>2. ASSUME NEW d \in Deletion, Pop(d) \/ Close(d)
        PROVE  LetsNobodyIn
    BY <1>1, <1>2 DEF LetsNobodyIn, Pop, Close, Goto, redis, local
  <1>3. ASSUME NEW d \in Deletion, NEW done \in BOOLEAN, NEW heard \in BOOLEAN,
               Del(d, done, heard)
        PROVE  LetsNobodyIn
    BY <1>1, <1>3 DEF LetsNobodyIn, Del, Finish, Goto, local
  <1>4. ASSUME NEW c \in Creation, Install(c) \/ InstallFails(c)
        PROVE  LetsNobodyIn
    BY <1>1, <1>4 DEF LetsNobodyIn, Install, InstallFails, Finish, Goto, redis, local
  <1>5. Tick => LetsNobodyIn
    BY <1>1 DEF LetsNobodyIn, Tick, local
  <1>6. ASSUME NEW p \in Replica, Crash(p)
        PROVE  LetsNobodyIn
    BY <1>1, <1>6 DEF LetsNobodyIn, Crash, Lost, redis, local
  <1>7. UNCHANGED vars => LetsNobodyIn
    BY DEF LetsNobodyIn, vars, redis, local
  <1> QED
    BY <1>2, <1>3, <1>4, <1>5, <1>6, <1>7 DEF DeletionStep, CreationStep

(* A client must know a session to name it, and knows it by the reply.     *)
LEMMA ArrivalStaysFresh ==
  ASSUME TypeOK, HistoryInv, FreshUntilTold,
         NEW q \in Message \cup Deletion, NEW p \in Replica, NEW s \in Session,
         Known(s), Route(q, p, s), store' = store,
         \A r \in Requests \ {q} : pc'[r] = pc[r] /\ reply'[r] = reply[r]
  PROVE  FreshUntilTold'
  <1>1. /\ q \in Requests /\ q \notin Creation /\ Creation \subseteq Requests
        /\ target' = [target EXCEPT ![q] = s] /\ target \in [Requests -> Session \cup {None}]
    BY HistoryTypes, DisjointRequests DEF Route
  <1> SUFFICES ASSUME NEW c \in Creation, pc'[c] \in {"idle", "install"}
               PROVE  /\ reply'[c] # "ok"
                      /\ pc'[c] = "install" =>
                           /\ \A r \in Requests \ {c} : pc'[r] # "idle" => target'[r] # target'[c]
                           /\ store'[target'[c]] # None => store'[target'[c]].hist = << >>
    BY DEF FreshUntilTold
  <1>2. pc'[c] = pc[c] /\ reply'[c] = reply[c] /\ reply[c] # "ok" /\ target'[c] = target[c]
    BY <1>1 DEF FreshUntilTold
  <1>3. target[c] # s
    BY <1>2 DEF Known
  <1> QED
    BY <1>1, <1>2, <1>3 DEF FreshUntilTold

(* A new session has no history, and no request names it.                  *)
LEMMA CreationStaysFresh ==
  ASSUME TypeOK, HistoryInv, FreshUntilTold,
         NEW c \in Creation, NEW p \in Replica, NEW s \in Session, CreateStore(c, p, s)
  PROVE  FreshUntilTold'
  <1>1. /\ c \in Requests /\ pc[c] = "idle" /\ pc' = [pc EXCEPT ![c] = "install"]
        /\ target' = [target EXCEPT ![c] = s] /\ target \in [Requests -> Session \cup {None}]
        /\ store' = [store EXCEPT ![s] = Blank] /\ s \notin born /\ reply' = reply
        /\ pc \in [Requests -> PcValues] /\ store \in [Session -> Record \cup {None}]
        /\ Creation \subseteq Requests
    BY HistoryTypes DEF CreateStore, Route, Goto
  <1>2. \A q \in Requests : pc[q] # "idle" => target[q] \in Session /\ target[q] # s
    BY <1>1, HistoryTypes
  <1>3. Blank.hist = << >>
    BY DEF Blank
  <1> SUFFICES ASSUME NEW e \in Creation, pc'[e] \in {"idle", "install"}
               PROVE  /\ reply[e] # "ok"
                      /\ pc'[e] = "install" =>
                           /\ \A q \in Requests \ {e} : pc'[q] # "idle" => target'[q] # target'[e]
                           /\ store'[target'[e]] # None => store'[target'[e]].hist = << >>
    BY <1>1 DEF FreshUntilTold
  <1>4. CASE e = c
    BY <1>1, <1>2, <1>3, <1>4 DEF FreshUntilTold
  <1>5. CASE e # c
    BY <1>1, <1>2, <1>5 DEF FreshUntilTold
  <1> QED
    BY <1>4, <1>5

(* No step makes a session known before its creation is answered.          *)
LEMMA FreshStep ==
  ASSUME TypeOK, HistoryInv, FreshUntilTold, [Next]_vars
  PROVE  FreshUntilTold'
  <1>1. ASSUME NEW r \in Message, NEW p \in Replica, NEW s \in Session, Arrive(r, p, s)
        PROVE  FreshUntilTold'
    BY <1>1, ArrivalStaysFresh, HistoryTypes DEF Arrive, Finish, Goto, redis
  <1>2. ASSUME NEW d \in Deletion, NEW p \in Replica, NEW s \in Session, DelLookup(d, p, s)
        PROVE  FreshUntilTold'
    BY <1>2, ArrivalStaysFresh, HistoryTypes DEF DelLookup, Finish, Goto, redis
  <1> QED
    BY <1>1, <1>2, CreationStaysFresh, StaysFresh, MessagesLetNobodyIn, OthersLetNobodyIn DEF Next

(* A client learns a session only from the answer to its creation.         *)
THEOREM NewSessionsAreFresh == Spec => []FreshUntilTold
  <1>1. Init => FreshUntilTold
    BY NoneIsNoOutcome DEF Init, FreshUntilTold, Requests, Outcomes
  <1>2. TypeOK /\ HistoryInv /\ FreshUntilTold /\ [Next]_vars => FreshUntilTold'
    BY FreshStep
  <1> QED
    BY <1>1, <1>2, TypeCorrect, HistoryHolds, PTL DEF Spec

(* The runs charged to an agent are at least the messages of a history.    *)
Covers(a, h) == agents[a].usage >= Len(h)

CacheCoversStored ==
  \A p \in Replica, s \in Session :
    instances[p][s] # None /\ store[s] # None => Covers(instances[p][s], store[s].hist)

(* Also when the session is gone by now: the save will bring it back.      *)
CacheCoversRead ==
  \A p \in Replica, r \in Message :
    pc[r] \in Critical \ {"reread"} /\ instances[p][target[r]] # None =>
      Covers(instances[p][target[r]], data[r].hist)

ReadIsCovered ==
  \A r \in Message :
    pc[r] \in Critical \ {"reread"} => data[r].usage >= Len(data[r].hist)

AgentCoversRead ==
  \A r \in Message : pc[r] \in {"touch", "run"} => Covers(agentOf[r], data[r].hist)

(* While a message works on its agent no other takes its place.            *)
RunsOnCached ==
  \A p \in Replica, r \in Message :
    pc[r] \in {"touch", "run"} => instances[p][target[r]] \in {None, agentOf[r]}

UsageInv ==
  /\ UsageCoversHistory
  /\ CacheCoversStored
  /\ CacheCoversRead
  /\ ReadIsCovered
  /\ AgentCoversRead
  /\ RunsOnCached

(* The numbers compared are numbers.                                       *)
LEMMA UsageTypes ==
  ASSUME TypeOK
  PROVE  /\ \A a \in AgentId : agents[a].usage \in Nat
         /\ \A s \in Session : store[s] # None =>
              /\ store[s].usage \in Nat /\ store[s].hist \in Seq(Message)
              /\ Len(store[s].hist) \in Nat
         /\ \A r \in Message : pc[r] \in Critical \ {"reread"} =>
              /\ data[r].usage \in Nat /\ data[r].hist \in Seq(Message)
              /\ Len(data[r].hist) \in Nat
         /\ \A r \in Message : pc[r] \in {"touch", "run"} => agentOf[r] \in AgentId
         /\ \A p \in Replica, s \in Session : instances[p][s] \in AgentId \cup {None}
  BY DEF TypeOK, RedisType, MemoryType, BoundWhenUsed, Record

(* What the steps have in common that cache no agent.                      *)
ChargesMore ==
  /\ \A a \in AgentId : agents'[a].usage >= agents[a].usage
  /\ \A p \in Replica, s \in Session : instances'[p][s] \in {instances[p][s], None}

(* A step that writes no history and caches no agent keeps the invariant.  *)
LEMMA UsageKept ==
  ASSUME TypeOK, TypeOK', HistoryInv, UsageInv, WritesNothing, ChargesMore
  PROVE  UsageInv'
  <1>1. /\ Blank.usage = 0 /\ Len(Blank.hist) = 0
        /\ \A a \in AgentId : agents'[a].usage \in Nat /\ agents[a].usage \in Nat
    BY DEF Blank, TypeOK, MemoryType, Record
  <1>2. UsageCoversHistory'
    BY <1>1 DEF UsageInv, UsageCoversHistory, WritesNothing
  <1>3. CacheCoversStored'
    <2> SUFFICES ASSUME NEW p \in Replica, NEW s \in Session,
                        instances'[p][s] # None, store'[s] # None
                 PROVE  agents'[instances'[p][s]].usage >= Len(store'[s].hist)
      BY DEF CacheCoversStored, Covers
    <2>1. instances'[p][s] = instances[p][s] /\ instances[p][s] \in AgentId
      BY UsageTypes DEF ChargesMore
    <2>2. CASE store'[s] = Blank
      BY <1>1, <2>1, <2>2
    <2>3. CASE store'[s] = store[s]
      BY <1>1, <2>1, <2>3, UsageTypes DEF UsageInv, CacheCoversStored, Covers, ChargesMore
    <2> QED
      BY <2>2, <2>3 DEF WritesNothing
  <1>4. CacheCoversRead'
    <2> SUFFICES ASSUME NEW p \in Replica, NEW q \in Message, pc'[q] \in Critical \ {"reread"},
                        instances'[p][target'[q]] # None
                 PROVE  agents'[instances'[p][target'[q]]].usage >= Len(data'[q].hist)
      BY DEF CacheCoversRead, Covers
    <2>1. pc[q] \in Critical \ {"reread"} /\ data'[q] = data[q]
          /\ target'[q] = target[q] /\ target[q] \in Session
      BY InsideBefore
    <2>2. instances'[p][target[q]] = instances[p][target[q]]
          /\ instances[p][target[q]] \in AgentId
      BY <2>1, UsageTypes DEF ChargesMore
    <2>3. agents[instances[p][target[q]]].usage >= Len(data[q].hist)
      BY <2>1, <2>2 DEF UsageInv, CacheCoversRead, Covers
    <2> QED
      BY <1>1, <2>1, <2>2, <2>3, UsageTypes DEF ChargesMore
  <1>5. ReadIsCovered'
    BY InsideBefore DEF UsageInv, ReadIsCovered
  <1>6. AgentCoversRead'
    <2> SUFFICES ASSUME NEW q \in Message, pc'[q] \in {"touch", "run"}
                 PROVE  agents'[agentOf'[q]].usage >= Len(data'[q].hist)
      BY DEF AgentCoversRead, Covers
    <2>1. /\ pc[q] \in {"touch", "run"} /\ agentOf'[q] = agentOf[q] /\ data'[q] = data[q]
          /\ pc[q] \in Critical \ {"reread"}
      BY InsideBefore DEF Critical, BeforeRun
    <2>2. agentOf[q] \in AgentId /\ agents[agentOf[q]].usage >= Len(data[q].hist)
      BY <2>1, UsageTypes DEF UsageInv, AgentCoversRead, Covers
    <2> QED
      BY <1>1, <2>1, <2>2, UsageTypes DEF ChargesMore
  <1>7. RunsOnCached'
    BY InsideBefore DEF UsageInv, RunsOnCached, ChargesMore, Critical, BeforeRun
  <1> QED
    BY <1>2, <1>3, <1>4, <1>5, <1>6, <1>7 DEF UsageInv

(* Reread has read what is stored, and what is stored is covered.          *)
LEMMA RereadUsage ==
  ASSUME TypeOK, TypeOK', HistoryInv, UsageInv, NEW r \in Message, Reread(r)
  PROVE  UsageInv'
  <1>1. /\ pc[r] = "reread" /\ r \in Requests /\ pc \in [Requests -> PcValues]
        /\ \A q \in Message : q \in Requests
        /\ data \in [Message -> Record \cup {None}] /\ target[r] \in Session
        /\ data' = [data EXCEPT ![r] = store[target[r]]]
        /\ UNCHANGED <<store, instances, agents, agentOf, target>>
        /\ \/ pc' = [pc EXCEPT ![r] = "attach"] /\ store[target[r]] # None
           \/ pc' = [pc EXCEPT ![r] = "release"]
    BY HistoryTypes DEF Reread, Unwind, Goto, redis, memory, TypeOK, LocalType
  <1>2. ASSUME NEW q \in Message, pc'[q] \in Critical \ {"reread"}
        PROVE  \/ q # r /\ pc'[q] = pc[q] /\ data'[q] = data[q]
               \/ /\ q = r /\ pc'[q] = "attach"
                  /\ data'[r] = store[target[r]] /\ store[target[r]] # None
    BY <1>1, <1>2 DEF Critical, BeforeRun, Saving
  <1>3. UsageCoversHistory' /\ CacheCoversStored'
    BY <1>1 DEF UsageInv, UsageCoversHistory, CacheCoversStored, Covers
  <1>4. CacheCoversRead'
    BY <1>1, <1>2 DEF UsageInv, CacheCoversStored, CacheCoversRead, Covers
  <1>5. ReadIsCovered'
    BY <1>1, <1>2 DEF UsageInv, UsageCoversHistory, ReadIsCovered
  <1>6. ASSUME NEW q \in Message, pc'[q] \in {"touch", "run"}
        PROVE  pc[q] \in {"touch", "run"} /\ data'[q] = data[q]
    BY <1>1, <1>6
  <1>7. AgentCoversRead' /\ RunsOnCached'
    BY <1>1, <1>6 DEF UsageInv, AgentCoversRead, RunsOnCached, Covers
  <1> QED
    BY <1>3, <1>4, <1>5, <1>7 DEF UsageInv

(* A message on one session inside the lock shares it with no other.       *)
LEMMA TargetsApart ==
  ASSUME LockOutlivesHolder, NEW q \in Message, NEW r \in Message, q # r,
         pc[q] \in Critical, pc[r] \in Critical
  PROVE  target[q] # target[r]
  BY DEF LockOutlivesHolder

(* Attach goes on with the cached agent, which knows of all earlier runs,  *)
(* or recovers one from the record it has read.                            *)
LEMMA AttachUsage ==
  ASSUME \A p, q \in Replica : p = q,
         TypeOK, TypeOK', LockOutlivesHolder, HistoryInv, UsageInv, NEW r \in Message, Attach(r)
  PROVE  UsageInv'
  <1>1. /\ pc[r] = "attach" /\ r \in Requests /\ pc \in [Requests -> PcValues]
        /\ pc' = [pc EXCEPT ![r] = "touch"] /\ pc[r] \in Critical \ {"reread"}
        /\ \A q \in Message : q \in Requests
        /\ target[r] \in Session /\ home[r] \in Replica
        /\ UNCHANGED <<store, data, target>>
    BY HistoryTypes DEF Attach, Goto, redis, Critical, BeforeRun
  <1>2. /\ agents \in [AgentId -> Record] /\ data[r] \in Record /\ r \in AgentId
        /\ agentOf \in [Message \cup Deletion -> AgentId \cup {None}]
        /\ instances \in [Replica -> [Session -> AgentId \cup {None}]]
        /\ None \notin AgentId
    BY <1>1, NoneIsNothing
    DEF TypeOK, MemoryType, LocalType, BoundWhenUsed, AgentId, Requests
  <1>3. ASSUME NEW q \in Message \ {r}, pc'[q] \in Critical
        PROVE  /\ pc'[q] = pc[q] /\ pc[q] \in Critical
               /\ target[q] # target[r] /\ target[q] \in Session
    BY <1>1, <1>3, TargetsApart, HistoryTypes DEF Critical, BeforeRun, Saving
  <1>4. PICK a \in AgentId :
          /\ agentOf' = [agentOf EXCEPT ![r] = a]
          /\ agents'[a].usage \in Nat /\ agents'[a].usage >= Len(data[r].hist)
          /\ \A b \in AgentId \ {a} : agents'[b] = agents[b]
          /\ \A p \in Replica : instances'[p][target[r]] = a
          /\ \A p \in Replica, s \in Session \ {target[r]} : instances'[p][s] = instances[p][s]
          /\ \A p \in Replica, s \in Session \ {target[r]} : instances[p][s] # a
          /\ store[target[r]] # None => agents'[a].usage >= Len(store[target[r]].hist)
          /\ \A q \in Message \ {r} : pc[q] \in {"touch", "run"} => agentOf[q] # a
    <2> DEFINE cached == instances[home[r]][target[r]]
    <2>1. store[target[r]] # None => store[target[r]].hist = data[r].hist
      BY <1>1 DEF HistoryInv, ReadIsStored
    <2>2. ASSUME NEW a \in AgentId, target[a] = target[r]
          PROVE  /\ \A p \in Replica, s \in Session \ {target[r]} : instances[p][s] # a
                 /\ \A q \in Message \ {r} : pc[q] \in {"touch", "run"} => agentOf[q] # a
      <3>1. \A p \in Replica, s \in Session \ {target[r]} : instances[p][s] # a
        BY <1>2, <2>2 DEF HistoryInv, AgentsServeOne, Serves
      <3>2. \A q \in Message \ {r} : pc[q] \in {"touch", "run"} => agentOf[q] # a
        BY <1>1, <2>2, AgentsApart
      <3> QED
        BY <3>1, <3>2
    <2>3. CASE cached # None
      <3>1. cached \in AgentId /\ target[cached] = target[r]
        BY <1>1, <1>2, <2>3 DEF HistoryInv, AgentsServeOne, Serves
      <3>2. /\ agentOf' = [agentOf EXCEPT ![r] = cached] /\ instances' = instances
            /\ agents' = [agents EXCEPT ![cached] = Refresh(r, agents[cached])]
        BY <2>3 DEF Attach, Cached
      <3>3. agents'[cached].usage = agents[cached].usage
        BY <1>2, <3>1, <3>2 DEF Refresh, Record
      <3>4. agents[cached].usage \in Nat /\ agents[cached].usage >= Len(data[r].hist)
        BY <1>1, <2>3, <3>1, UsageTypes DEF UsageInv, CacheCoversRead, Covers
      <3>5. \A p \in Replica : instances'[p][target[r]] = cached
        BY <1>1, <3>2
      <3> QED
        BY <1>2, <2>1, <2>2, <3>1, <3>2, <3>3, <3>4, <3>5
    <2>4. CASE cached = None
      <3>1. /\ agentOf' = [agentOf EXCEPT ![r] = r]
            /\ instances' = [instances EXCEPT ![home[r]][target[r]] = r]
            /\ agents' = [agents EXCEPT ![r] = Refresh(r, Recovered(r))]
        BY <2>4 DEF Attach, Cached
      <3>2. agents'[r].usage = data[r].usage
        BY <1>2, <3>1 DEF Refresh, Recovered, Record
      <3>3. data[r].usage \in Nat /\ data[r].usage >= Len(data[r].hist)
        BY <1>1, UsageTypes DEF UsageInv, ReadIsCovered
      <3>4. /\ \A p \in Replica : instances'[p][target[r]] = r
            /\ \A p \in Replica, s \in Session \ {target[r]} : instances'[p][s] = instances[p][s]
        BY <1>1, <1>2, <3>1
      <3> QED
        BY <1>2, <2>1, <2>2, <3>1, <3>2, <3>3, <3>4
    <2> QED
      BY <2>3, <2>4
  <1>5. UsageCoversHistory' /\ ReadIsCovered'
    BY <1>1 DEF UsageInv, UsageCoversHistory, ReadIsCovered, Critical, BeforeRun, Saving
  <1>6. CacheCoversStored'
    <2> SUFFICES ASSUME NEW p \in Replica, NEW s \in Session,
                        instances'[p][s] # None, store[s] # None
                 PROVE  agents'[instances'[p][s]].usage >= Len(store[s].hist)
      BY <1>1 DEF CacheCoversStored, Covers
    <2>1. CASE s = target[r]
      BY <1>1, <1>4, <2>1
    <2>2. CASE s # target[r]
      <3>1. /\ instances'[p][s] = instances[p][s] /\ instances[p][s] \in AgentId
            /\ instances[p][s] # a
        BY <1>2, <1>4, <2>2
      <3> QED
        BY <1>4, <3>1 DEF UsageInv, CacheCoversStored, Covers
    <2> QED
      BY <2>1, <2>2
  <1>7. CacheCoversRead'
    <2> SUFFICES ASSUME NEW p \in Replica, NEW q \in Message, pc'[q] \in Critical \ {"reread"},
                        instances'[p][target[q]] # None
                 PROVE  agents'[instances'[p][target[q]]].usage >= Len(data[q].hist)
      BY <1>1 DEF CacheCoversRead, Covers
    <2>1. CASE q = r
      BY <1>4, <2>1
    <2>2. CASE q # r
      <3>1. /\ instances'[p][target[q]] = instances[p][target[q]]
            /\ instances[p][target[q]] \in AgentId /\ instances[p][target[q]] # a
            /\ pc[q] \in Critical \ {"reread"}
        BY <1>2, <1>3, <1>4, <2>2
      <3> QED
        BY <1>4, <3>1 DEF UsageInv, CacheCoversRead, Covers
    <2> QED
      BY <2>1, <2>2
  <1>8. AgentCoversRead'
    <2> SUFFICES ASSUME NEW q \in Message, pc'[q] \in {"touch", "run"}
                 PROVE  agents'[agentOf'[q]].usage >= Len(data[q].hist)
      BY <1>1 DEF AgentCoversRead, Covers
    <2>1. CASE q = r
      BY <1>2, <1>4, <2>1
    <2>2. CASE q # r
      <3>1. /\ pc[q] \in {"touch", "run"} /\ agentOf'[q] = agentOf[q]
            /\ agentOf[q] \in AgentId /\ agentOf[q] # a
        BY <1>1, <1>2, <1>4, <2>2, UsageTypes
      <3> QED
        BY <1>4, <3>1 DEF UsageInv, AgentCoversRead, Covers
    <2> QED
      BY <2>1, <2>2
  <1>9. RunsOnCached'
    <2> SUFFICES ASSUME NEW p \in Replica, NEW q \in Message, pc'[q] \in {"touch", "run"}
                 PROVE  instances'[p][target[q]] \in {None, agentOf'[q]}
      BY <1>1 DEF RunsOnCached
    <2>1. CASE q = r
      BY <1>2, <1>4, <2>1
    <2>2. CASE q # r
      <3>1. /\ pc[q] \in {"touch", "run"} /\ agentOf'[q] = agentOf[q]
            /\ instances'[p][target[q]] = instances[p][target[q]]
        BY <1>2, <1>3, <1>4, <2>2 DEF Critical, BeforeRun
      <3> QED
        BY <3>1 DEF UsageInv, RunsOnCached
    <2> QED
      BY <2>1, <2>2
  <1> QED
    BY <1>5, <1>6, <1>7, <1>8, <1>9 DEF UsageInv

(* RunDone charges the agent for the message it adds.                      *)
LEMMA RunDoneUsage ==
  ASSUME TypeOK, TypeOK', LockOutlivesHolder, HistoryInv, UsageInv, NEW r \in Message, RunDone(r)
  PROVE  UsageInv'
  <1> DEFINE a == agentOf[r]
  <1>1. /\ pc[r] = "run" /\ r \in Requests /\ pc \in [Requests -> PcValues]
        /\ pc' = [pc EXCEPT ![r] = "saveGet"] /\ pc[r] \in Critical \ {"reread"}
        /\ \A q \in Message : q \in Requests
        /\ target[r] \in Session
        /\ UNCHANGED <<store, target, instances, agentOf>>
    BY HistoryTypes DEF RunDone, Goto, redis, Critical
  <1>2. /\ agents \in [AgentId -> Record] /\ a \in AgentId
        /\ data \in [Message -> Record \cup {None}] /\ data[r] \in Record
        /\ agents[a].hist = data[r].hist
    BY <1>1 DEF TypeOK, MemoryType, LocalType, BoundWhenUsed, HistoryInv, AgentHasRead
  <1>3. /\ agents'[a].usage = agents[a].usage + 1
        /\ data'[r].usage = agents[a].usage + 1
        /\ data'[r].hist = Append(data[r].hist, r)
        /\ \A b \in AgentId \ {a} : agents'[b] = agents[b]
        /\ \A q \in Message \ {r} : data'[q] = data[q]
    BY <1>2 DEF RunDone
  <1>4. /\ agents[a].usage \in Nat /\ Len(data[r].hist) \in Nat
        /\ agents[a].usage >= Len(data[r].hist)
        /\ Len(Append(data[r].hist, r)) = Len(data[r].hist) + 1
    BY <1>1, <1>2, UsageTypes DEF UsageInv, AgentCoversRead, Covers
  <1> HIDE DEF a
  <1>5. \A b \in AgentId : agents'[b].usage >= agents[b].usage /\ agents[b].usage \in Nat
                            /\ agents'[b].usage \in Nat
    BY <1>2, <1>3, <1>4, UsageTypes
  <1>6. UsageCoversHistory'
    BY <1>1 DEF UsageInv, UsageCoversHistory
  <1>7. CacheCoversStored'
    <2> SUFFICES ASSUME NEW p \in Replica, NEW s \in Session,
                        instances[p][s] # None, store[s] # None
                 PROVE  agents'[instances[p][s]].usage >= Len(store[s].hist)
      BY <1>1 DEF CacheCoversStored, Covers
    <2>1. instances[p][s] \in AgentId /\ agents[instances[p][s]].usage >= Len(store[s].hist)
      BY UsageTypes DEF UsageInv, CacheCoversStored, Covers
    <2> QED
      BY <1>5, <2>1, UsageTypes
  <1>8. ASSUME NEW q \in Message, pc'[q] \in Critical \ {"reread"}, q # r
        PROVE  pc[q] \in Critical \ {"reread"} /\ data'[q] = data[q] /\ target[q] \in Session
               /\ pc'[q] = pc[q]
    BY <1>1, <1>3, <1>8, HistoryTypes DEF Critical, BeforeRun, Saving
  <1>9. CacheCoversRead'
    <2> SUFFICES ASSUME NEW p \in Replica, NEW q \in Message, pc'[q] \in Critical \ {"reread"},
                        instances[p][target[q]] # None
                 PROVE  agents'[instances[p][target[q]]].usage >= Len(data'[q].hist)
      BY <1>1 DEF CacheCoversRead, Covers
    <2>1. CASE q = r
      <3>1. instances[p][target[r]] = a
        BY <1>1, <2>1 DEF UsageInv, RunsOnCached, a
      <3> QED
        BY <1>3, <1>4, <2>1, <3>1
    <2>2. CASE q # r
      <3>1. /\ instances[p][target[q]] \in AgentId
            /\ agents[instances[p][target[q]]].usage >= Len(data[q].hist)
            /\ Len(data[q].hist) \in Nat /\ data'[q] = data[q]
        BY <1>8, <2>2, UsageTypes DEF UsageInv, CacheCoversRead, Covers
      <3> QED
        BY <1>5, <3>1
    <2> QED
      BY <2>1, <2>2
  <1>10. ReadIsCovered'
    <2> SUFFICES ASSUME NEW q \in Message, pc'[q] \in Critical \ {"reread"}
                 PROVE  data'[q].usage >= Len(data'[q].hist)
      BY DEF ReadIsCovered
    <2>1. CASE q = r
      BY <1>3, <1>4, <2>1
    <2>2. CASE q # r
      BY <1>8, <2>2 DEF UsageInv, ReadIsCovered
    <2> QED
      BY <2>1, <2>2
  <1>11. ASSUME NEW q \in Message, pc'[q] \in {"touch", "run"}
         PROVE  q # r /\ pc[q] \in {"touch", "run"} /\ data'[q] = data[q]
                /\ pc[q] \in Critical \ {"reread"}
    BY <1>1, <1>3, <1>11 DEF Critical, BeforeRun
  <1>12. AgentCoversRead'
    <2> SUFFICES ASSUME NEW q \in Message, pc'[q] \in {"touch", "run"}
                 PROVE  agents'[agentOf[q]].usage >= Len(data'[q].hist)
      BY <1>1 DEF AgentCoversRead, Covers
    <2>1. /\ agentOf[q] \in AgentId /\ agents[agentOf[q]].usage >= Len(data[q].hist)
          /\ Len(data[q].hist) \in Nat /\ data'[q] = data[q]
      BY <1>11, UsageTypes DEF UsageInv, AgentCoversRead, Covers
    <2> QED
      BY <1>5, <2>1
  <1>13. RunsOnCached'
    BY <1>1, <1>11 DEF UsageInv, RunsOnCached
  <1> QED
    BY <1>6, <1>7, <1>9, <1>10, <1>12, <1>13 DEF UsageInv

(* SaveSet stores what is covered, and the cached agent covers it.         *)
LEMMA SaveSetUsage ==
  ASSUME TypeOK, TypeOK', HistoryInv, UsageInv,
         NEW r \in Message, NEW heard \in BOOLEAN, SaveSet(r, heard)
  PROVE  UsageInv'
  <1>1. /\ pc[r] = "saveSet" /\ r \in Requests /\ pc \in [Requests -> PcValues]
        /\ pc' = [pc EXCEPT ![r] = "release"] /\ pc[r] \in Critical \ {"reread"}
        /\ \A q \in Message : q \in Requests
        /\ target[r] \in Session /\ store \in [Session -> Record \cup {None}]
        /\ store' = [store EXCEPT ![target[r]] = data[r]]
        /\ UNCHANGED <<data, target, instances, agentOf, agents>>
    BY HistoryTypes DEF SaveSet, Write, Unwind, Goto, memory, local, Critical, Saving
  <1>2. UsageCoversHistory'
    BY <1>1 DEF UsageInv, UsageCoversHistory, ReadIsCovered
  <1>3. CacheCoversStored'
    BY <1>1 DEF UsageInv, CacheCoversStored, CacheCoversRead, Covers
  <1>4. ASSUME NEW q \in Message, pc'[q] \in Critical
        PROVE  pc'[q] = pc[q]
    BY <1>1, <1>4 DEF Critical, BeforeRun, Saving
  <1>5. CacheCoversRead' /\ ReadIsCovered'
    BY <1>1, <1>4 DEF UsageInv, CacheCoversRead, ReadIsCovered, Covers
  <1>6. AgentCoversRead' /\ RunsOnCached'
    BY <1>1, <1>4 DEF UsageInv, AgentCoversRead, RunsOnCached, Covers, Critical, BeforeRun
  <1> QED
    BY <1>2, <1>3, <1>5, <1>6 DEF UsageInv

(* The agent of a new session has nothing to cover.                        *)
LEMMA InstallUsage ==
  ASSUME TypeOK, TypeOK', HistoryInv, FreshUntilTold, UsageInv, NEW c \in Creation, Install(c)
  PROVE  UsageInv'
  <1>1. /\ pc[c] = "install" /\ c \in Requests /\ pc \in [Requests -> PcValues]
        /\ pc' = [pc EXCEPT ![c] = "done"] /\ c \in AgentId
        /\ \A q \in Message : q \in Requests /\ q # c
        /\ target[c] \in Session /\ home[c] \in Replica
        /\ instances' = [instances EXCEPT ![home[c]][target[c]] = c]
        /\ instances \in [Replica -> [Session -> AgentId \cup {None}]]
        /\ UNCHANGED <<store, data, target, agentOf, agents>>
    BY HistoryTypes, DisjointRequests DEF Install, Finish, Goto, redis, local, AgentId
  <1>2. \A p \in Replica, s \in Session :
          \/ instances'[p][s] = instances[p][s]
          \/ instances'[p][s] = c /\ s = target[c]
    BY <1>1
  <1>3. \A q \in Message : pc'[q] = pc[q] /\ (pc[q] \in Critical => target[q] # target[c]
                                                               /\ target[q] \in Session)
    BY <1>1, HistoryTypes DEF FreshUntilTold, Critical, BeforeRun, Saving
  <1>4. UsageCoversHistory' /\ ReadIsCovered' /\ AgentCoversRead'
    BY <1>1, <1>3 DEF UsageInv, UsageCoversHistory, ReadIsCovered, AgentCoversRead, Covers
  <1>5. CacheCoversStored'
    <2> SUFFICES ASSUME NEW p \in Replica, NEW s \in Session,
                        instances'[p][s] # None, store[s] # None
                 PROVE  agents[instances'[p][s]].usage >= Len(store[s].hist)
      BY <1>1 DEF CacheCoversStored, Covers
    <2>1. CASE instances'[p][s] = instances[p][s]
      BY <2>1 DEF UsageInv, CacheCoversStored, Covers
    <2>2. CASE instances'[p][s] = c /\ s = target[c]
      <3>1. store[s].hist = << >> /\ agents[c].usage \in Nat
        BY <1>1, <2>2, UsageTypes DEF FreshUntilTold
      <3>2. Len(store[s].hist) = 0
        BY <3>1
      <3> QED
        BY <2>2, <3>1, <3>2
    <2> QED
      BY <1>2, <2>1, <2>2
  <1>6. CacheCoversRead'
    BY <1>1, <1>2, <1>3 DEF UsageInv, CacheCoversRead, Covers
  <1>7. RunsOnCached'
    BY <1>1, <1>2, <1>3 DEF UsageInv, RunsOnCached, Critical, BeforeRun
  <1> QED
    BY <1>4, <1>5, <1>6, <1>7 DEF UsageInv

(* A run that is cut off takes nothing from what its agent was charged.    *)
LEMMA CutOffCharges ==
  ASSUME TypeOK, NEW r \in Message, pc[r] = "run", LeavePartialRun(r)
  PROVE  \A a \in AgentId : agents'[a].usage >= agents[a].usage
  <1>1. /\ agentOf[r] \in AgentId /\ agents \in [AgentId -> Record]
        /\ \A a \in AgentId : agents[a].usage \in Nat
    BY UsageTypes DEF TypeOK, MemoryType
  <1>2. PICK h \in {agents[agentOf[r]].hist, Append(agents[agentOf[r]].hist, r)},
             charged \in {0, 1} :
          agents' = [agents EXCEPT ![agentOf[r]] =
                       [hist |-> h, usage |-> agents[agentOf[r]].usage + charged]]
    BY DEF LeavePartialRun
  <1>3. \A a \in AgentId :
          agents'[a].usage = agents[a].usage \/ agents'[a].usage = agents[a].usage + charged
    BY <1>1, <1>2
  <1> QED
    BY <1>1, <1>2, <1>3

(* All steps but Attach and Install cache no agent, and no step but Attach *)
(* discharges one.                                                         *)
LEMMA MostChargeMore ==
  ASSUME TypeOK, [Next]_vars
  PROVE  \/ ChargesMore
         \/ \E r \in Message : Attach(r) \/ RunDone(r)
         \/ \E c \in Creation : Install(c)
  <1>1. ASSUME UNCHANGED <<instances, agents>>
        PROVE  ChargesMore
    BY <1>1, UsageTypes DEF ChargesMore
  <1>2. ASSUME NEW r \in Message, RunTimeout(r) \/ RunFails(r)
        PROVE  ChargesMore
    BY <1>2, CutOffCharges DEF RunTimeout, RunFails, ChargesMore
  <1>3. ASSUME NEW r \in Message, MessageStep(r)
        PROVE  ChargesMore \/ Attach(r) \/ RunDone(r)
    BY <1>1, <1>2, <1>3
    DEF MessageStep, Arrive, Acquire, Reread, Touch, SaveGet, SaveSet, Release, Fail, memory
  <1>4. ASSUME NEW d \in Deletion, Pop(d)
        PROVE  ChargesMore
    BY <1>4, UsageTypes DEF Pop, Uncache, ChargesMore, TypeOK, MemoryType
  <1>5. ASSUME NEW d \in Deletion, DeletionStep(d)
        PROVE  ChargesMore
    BY <1>1, <1>4, <1>5 DEF DeletionStep, DelLookup, Del, Close, memory
  <1>6. ASSUME NEW c \in Creation, CreationStep(c)
        PROVE  ChargesMore \/ Install(c)
    BY <1>1, <1>6 DEF CreationStep, CreateStore, InstallFails, memory
  <1>7. ASSUME NEW p \in Replica, Crash(p)
        PROVE  ChargesMore
    BY <1>7, UsageTypes DEF Crash, ChargesMore, TypeOK, MemoryType
  <1>8. Tick \/ UNCHANGED vars => ChargesMore
    BY <1>1 DEF Tick, vars, memory
  <1> QED
    BY <1>3, <1>5, <1>6, <1>7, <1>8 DEF Next

(* No step on one replica breaks the invariant.                            *)
LEMMA UsageStep ==
  ASSUME \A p, q \in Replica : p = q, TypeOK, TypeOK', LockOutlivesHolder, HistoryInv,
         FreshUntilTold, UsageInv, [Next]_vars
  PROVE  UsageInv'
  <1>1. CASE UNCHANGED vars
    BY <1>1
    DEF vars, redis, memory, local, UsageInv, UsageCoversHistory, CacheCoversStored,
        CacheCoversRead, ReadIsCovered, AgentCoversRead, RunsOnCached, Covers
  <1>2. ASSUME NEW r \in Message, Reread(r) \/ Attach(r) \/ RunDone(r)
        PROVE  UsageInv'
    BY <1>2, RereadUsage, AttachUsage, RunDoneUsage
  <1>3. ASSUME NEW r \in Message, NEW heard \in BOOLEAN, SaveSet(r, heard)
        PROVE  UsageInv'
    BY <1>3, SaveSetUsage
  <1>4. ASSUME NEW c \in Creation, Install(c)
        PROVE  UsageInv'
    BY <1>4, InstallUsage
  <1>5. CASE WritesNothing /\ ChargesMore
    BY <1>5, UsageKept
  <1> QED
    BY <1>1, <1>2, <1>3, <1>4, <1>5, StepKinds, MostChargeMore

(* The invariant holds of every reachable state of one replica.            *)
THEOREM UsageHolds ==
  ASSUME \A p, q \in Replica : p = q
  PROVE  Spec => []UsageInv
  <1>1. Init => UsageInv
    <2> SUFFICES ASSUME Init
                 PROVE  UsageInv
      OBVIOUS
    <2>1. /\ \A q \in Message : pc[q] = "idle"
          /\ \A p \in Replica, s \in Session : instances[p][s] = None
          /\ \A s \in Session : store[s] # None => store[s] = Blank
      BY DEF Init, Requests
    <2>2. Blank.usage = 0 /\ Len(Blank.hist) = 0
      BY DEF Blank
    <2> QED
      BY <2>1, <2>2
      DEF UsageInv, UsageCoversHistory, CacheCoversStored, CacheCoversRead, ReadIsCovered,
          AgentCoversRead, RunsOnCached, Critical, BeforeRun, Saving
  <1>2. TypeOK /\ TypeOK' /\ LockOutlivesHolder /\ HistoryInv /\ FreshUntilTold /\ UsageInv
          /\ [Next]_vars => UsageInv'
    BY UsageStep
  <1> QED
    BY <1>1, <1>2, TypeCorrect, LockAlwaysOutlives, HistoryHolds, NewSessionsAreFresh, PTL DEF Spec

(* On one replica the usage stored for a session covers its history.       *)
THEOREM UsageIsCumulative ==
  ASSUME \A p, q \in Replica : p = q
  PROVE  Spec => []UsageCoversHistory
  <1>1. UsageInv => UsageCoversHistory
    BY DEF UsageInv
  <1> QED
    BY <1>1, UsageHolds, PTL

=============================================================================
