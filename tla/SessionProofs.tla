---------------------------- MODULE SessionProofs ----------------------------
(***************************************************************************)
(* Proofs about SessionManager, for any sets of replicas, sessions and     *)
(* requests and any timeouts: type correctness, and that an agent once     *)
(* closed is cached nowhere.  A cached agent serves the one session it was *)
(* made for, on the one replica that made it, so that a deletion takes it  *)
(* out of the only cache that has it.                                      *)
(***************************************************************************)
EXTENDS SessionProperties, TLAPS

(* The initial states are well typed.                                     *)
LEMMA TypeInit == Init => TypeOK
  <1> SUFFICES ASSUME Init PROVE TypeOK
    OBVIOUS
  <1>1. RedisType
    BY TimesAreNatural DEF Init, RedisType, Record, Blank
  <1>2. MemoryType
    BY DEF Init, MemoryType, Record, Blank
  <1>3. ControlType
    BY DEF Init, ControlType, PcValues, Replies, Outcomes
  <1>4. LocalType /\ BoundWhenUsed
    BY DisjointRequests
    DEF Init, LocalType, BoundWhenUsed, Requests, Critical, BeforeRun, Saving
  <1> QED
    BY <1>1, <1>2, <1>3, <1>4 DEF TypeOK

(* A run cut off half-way leaves a well-formed agent.                      *)
LEMMA PartialRunType ==
  ASSUME TypeOK, NEW r \in Message, pc[r] = "run", LeavePartialRun(r)
  PROVE  agents' \in [AgentId -> Record]
  <1> DEFINE begun == agents[agentOf[r]]
  <1>1. agentOf[r] \in AgentId /\ begun \in Record
    BY DEF TypeOK, BoundWhenUsed, MemoryType
  <1>2. PICK h \in {begun.hist, Append(begun.hist, r)}, charged \in {0, 1} :
          agents' = [agents EXCEPT ![agentOf[r]] =
                       [hist |-> h, usage |-> begun.usage + charged]]
    BY DEF LeavePartialRun
  <1> HIDE DEF begun
  <1>3. begun.hist \in Seq(Message) /\ begun.usage \in Nat
    BY <1>1 DEF Record
  <1>4. h \in Seq(Message)
    <2>1. CASE h = begun.hist
      BY <2>1, <1>3
    <2>2. CASE h = Append(begun.hist, r)
      BY <2>2, <1>3
    <2> QED
      BY <1>2, <2>1, <2>2
  <1>5. begun.usage + charged \in Nat
    BY <1>3, <1>2
  <1>6. [hist |-> h, usage |-> begun.usage + charged] \in Record
    BY <1>4, <1>5 DEF Record
  <1> QED
    BY <1>1, <1>2, <1>6 DEF TypeOK, MemoryType

(* Arrive keeps every type.                                                *)
LEMMA ArriveType ==
  ASSUME TypeOK, NEW r \in Message, NEW p \in Replica, NEW s \in Session, Arrive(r, p, s)
  PROVE  TypeOK'
  <1>1. RedisType'
    BY DEF TypeOK, RedisType, Arrive, redis
  <1>2. MemoryType'
    BY DEF TypeOK, MemoryType, Arrive, memory
  <1>3. ControlType'
    BY DEF TypeOK, ControlType, Arrive, Route, Finish, Goto, ghost, Requests, PcValues, Replies, Outcomes
  <1>4. LocalType'
    BY DEF TypeOK, LocalType, Arrive, Route, clocks
  <1>5. BoundWhenUsed'
    <2>1. /\ pc \in [Requests -> PcValues] /\ r \in Requests
          /\ home \in [Requests -> Replica \cup {None}]
          /\ target \in [Requests -> Session \cup {None}]
      BY DEF TypeOK, ControlType, LocalType, Requests
    <2>2. \A q \in Requests :
            pc'[q] # "idle" => home'[q] \in Replica /\ target'[q] \in Session
      BY <2>1 DEF TypeOK, BoundWhenUsed, Arrive, Route, Finish, Goto
    <2>3. \A q \in Message : pc'[q] \in Critical => pc'[q] = pc[q]
      BY <2>1, DisjointRequests
      DEF Arrive, Route, Finish, Goto, Critical, BeforeRun, Saving, Requests
    <2> QED
      BY <2>2, <2>3 DEF TypeOK, BoundWhenUsed, Arrive, Critical, BeforeRun, Saving
  <1> QED
    BY <1>1, <1>2, <1>3, <1>4, <1>5 DEF TypeOK

(* Acquire keeps every type.                                               *)
LEMMA AcquireType ==
  ASSUME TypeOK, NEW r \in Message, NEW heard \in BOOLEAN, Acquire(r, heard)
  PROVE  TypeOK'
  <1>1. RedisType'
    <2>1. target[r] \in Session /\ LockTimeout \in Nat
      BY TimesAreNatural DEF TypeOK, BoundWhenUsed, Acquire, LockTimeout, Requests
    <2> QED
      BY <2>1 DEF TypeOK, RedisType, Acquire, TakeLock
  <1>2. MemoryType'
    BY DEF TypeOK, MemoryType, Acquire, memory
  <1>3. ControlType'
    BY DEF TypeOK, ControlType, Acquire, Finish, Goto, ghost, Requests, PcValues, Critical, BeforeRun, Saving, Replies, Outcomes
  <1>4. LocalType'
    BY TimesAreNatural DEF TypeOK, LocalType, Acquire, local
  <1>5. BoundWhenUsed'
    <2>1. pc \in [Requests -> PcValues] /\ pc[r] # "idle" /\ r \in Requests
      BY DEF TypeOK, ControlType, Requests, Acquire, Waiting, Critical, BeforeRun, Saving
    <2>2. \A q \in Requests : pc'[q] # "idle" => pc[q] # "idle"
      BY <2>1 DEF Acquire, Finish, Goto
    <2>3. \A q \in Message : pc'[q] \in Critical \ {"reread"} => pc'[q] = pc[q]
      BY <2>1 DEF Acquire, Finish, Goto, Critical, BeforeRun, Saving, Requests
    <2> QED
      BY <2>2, <2>3 DEF TypeOK, BoundWhenUsed, Acquire, local, Critical, BeforeRun, Saving
  <1> QED
    BY <1>1, <1>2, <1>3, <1>4, <1>5 DEF TypeOK

(* Reread keeps every type.                                                *)
LEMMA RereadType ==
  ASSUME TypeOK, NEW r \in Message, Reread(r)
  PROVE  TypeOK'
  <1>1. RedisType'
    BY DEF TypeOK, RedisType, Reread, redis
  <1>2. MemoryType'
    BY DEF TypeOK, MemoryType, Reread, memory
  <1>3. ControlType'
    BY DEF TypeOK, ControlType, Reread, Unwind, Goto, ghost, Requests, PcValues, Critical, BeforeRun, Saving, Replies, Outcomes
  <1>4. LocalType'
    <2>1. store[target[r]] \in Record \cup {None}
      BY DEF TypeOK, RedisType, BoundWhenUsed, Reread, Requests
    <2> QED
      BY <2>1 DEF TypeOK, LocalType, Reread, clocks
  <1>5. BoundWhenUsed'
    <2>1. pc \in [Requests -> PcValues] /\ pc[r] = "reread" /\ r \in Requests
      BY DEF TypeOK, ControlType, Requests, Reread
    <2>2. \A q \in Requests : pc'[q] # "idle" => pc[q] # "idle"
      BY <2>1 DEF Reread, Unwind, Goto
    <2>3. store[target[r]] # None => store[target[r]] \in Record
      BY <2>1 DEF TypeOK, RedisType, BoundWhenUsed
    <2>4. data' = [data EXCEPT ![r] = store[target[r]]] /\ data \in [Message -> Record \cup {None}]
      BY DEF TypeOK, LocalType, Reread
    <2>5. ASSUME NEW q \in Message, pc'[q] \in Critical \ {"reread"}
          PROVE  data'[q] \in Record
      <3>1. CASE q = r
        BY <2>1, <2>3, <2>4, <2>5, <3>1 DEF Reread, Unwind, Goto, Critical, BeforeRun, Saving
      <3>2. CASE q # r
        BY <2>1, <2>4, <2>5, <3>2 DEF TypeOK, BoundWhenUsed, Reread, Unwind, Goto, Requests
      <3> QED
        BY <3>1, <3>2
    <2>6. \A q \in Message : pc'[q] \in {"touch", "run"} => pc'[q] = pc[q]
      BY <2>1 DEF Reread, Unwind, Goto, Requests
    <2> QED
      BY <2>2, <2>5, <2>6 DEF TypeOK, BoundWhenUsed, Reread
  <1> QED
    BY <1>1, <1>2, <1>3, <1>4, <1>5 DEF TypeOK

(* Attach keeps every type.                                                *)
LEMMA AttachType ==
  ASSUME TypeOK, NEW r \in Message, Attach(r)
  PROVE  TypeOK'
  <1>1. RedisType'
    BY DEF TypeOK, RedisType, Attach, redis
  <1>2. MemoryType'
    <2> DEFINE cached == instances[home[r]][target[r]]
    <2>1. home[r] \in Replica /\ target[r] \in Session /\ data[r] \in Record
      BY DEF TypeOK, BoundWhenUsed, Attach, Requests, Critical, BeforeRun
    <2>2. cached \in AgentId \cup {None} /\ r \in AgentId
      BY <2>1 DEF TypeOK, MemoryType, AgentId
    <2>3. /\ Refresh(r, Recovered(r)) \in Record
          /\ \A a \in AgentId : Refresh(r, agents[a]) \in Record
      BY <2>1 DEF TypeOK, MemoryType, Refresh, Recovered, Record
    <2>4. agents' \in [AgentId -> Record]
      BY <2>2, <2>3 DEF TypeOK, MemoryType, Attach, Cached
    <2>5. instances' \in [Replica -> [Session -> AgentId \cup {None}]]
      BY <2>1, <2>2 DEF TypeOK, MemoryType, Attach, Cached
    <2> QED
      BY <2>4, <2>5 DEF TypeOK, MemoryType, Attach, Cached
  <1>3. ControlType'
    BY DEF TypeOK, ControlType, Attach, Goto, ghost, Requests, PcValues, Critical, BeforeRun, Saving
  <1>4. LocalType'
    <2>1. instances[home[r]][target[r]] \in AgentId \cup {None} /\ r \in AgentId
      BY DEF TypeOK, MemoryType, BoundWhenUsed, Attach, Requests, AgentId
    <2> QED
      BY <2>1 DEF TypeOK, LocalType, Attach, Cached, clocks
  <1>5. BoundWhenUsed'
    BY NoneIsNothing
    DEF TypeOK, BoundWhenUsed, ControlType, LocalType, MemoryType, Attach, Cached, Goto, local,
        Requests, Critical, BeforeRun, Saving, AgentId
  <1> QED
    BY <1>1, <1>2, <1>3, <1>4, <1>5 DEF TypeOK

(* Touch keeps every type.                                                 *)
LEMMA TouchType ==
  ASSUME TypeOK, NEW r \in Message, Touch(r)
  PROVE  TypeOK'
  <1>1. RedisType'
    BY TimesAreNatural DEF TypeOK, RedisType, Touch, Renew
  <1>2. MemoryType'
    BY DEF TypeOK, MemoryType, Touch, memory
  <1>3. ControlType'
    BY DEF TypeOK, ControlType, Touch, Goto, ghost, Requests, PcValues, Critical, BeforeRun, Saving
  <1>4. LocalType'
    BY TimesAreNatural DEF TypeOK, LocalType, Touch, local
  <1>5. BoundWhenUsed'
    BY DEF TypeOK, BoundWhenUsed, ControlType, Touch, Goto, local, Requests, Critical, BeforeRun, Saving
  <1> QED
    BY <1>1, <1>2, <1>3, <1>4, <1>5 DEF TypeOK

(* RunDone keeps every type.                                               *)
LEMMA RunDoneType ==
  ASSUME TypeOK, NEW r \in Message, RunDone(r)
  PROVE  TypeOK'
  <1>1. RedisType'
    BY DEF TypeOK, RedisType, RunDone, redis
  <1>2. MemoryType'
    <2>1. agentOf[r] \in AgentId
      BY DEF TypeOK, BoundWhenUsed, RunDone
    <2>2. [hist |-> Append(agents[agentOf[r]].hist, r),
           usage |-> agents[agentOf[r]].usage + 1] \in Record
      BY <2>1 DEF TypeOK, MemoryType, Record
    <2> QED
      BY <2>1, <2>2 DEF TypeOK, MemoryType, RunDone
  <1>3. ControlType'
    BY DEF TypeOK, ControlType, RunDone, Goto, ghost, Requests, PcValues, Critical, BeforeRun, Saving
  <1>4. LocalType'
    <2>1. agentOf[r] \in AgentId
      BY DEF TypeOK, BoundWhenUsed, RunDone
    <2>2. [hist |-> Append(agents[agentOf[r]].hist, r),
           usage |-> agents[agentOf[r]].usage + 1] \in Record
      BY <2>1 DEF TypeOK, MemoryType, Record
    <2> QED
      BY <2>1, <2>2 DEF TypeOK, LocalType, RunDone, clocks
  <1>5. BoundWhenUsed'
    BY DEF TypeOK, BoundWhenUsed, ControlType, LocalType, MemoryType, Record, RunDone, Goto, local, Requests, Critical, BeforeRun, Saving
  <1> QED
    BY <1>1, <1>2, <1>3, <1>4, <1>5 DEF TypeOK

(* RunTimeout keeps every type.                                            *)
LEMMA RunTimeoutType ==
  ASSUME TypeOK, NEW r \in Message, RunTimeout(r)
  PROVE  TypeOK'
  <1>1. RedisType'
    BY DEF TypeOK, RedisType, RunTimeout, redis
  <1>2. MemoryType'
    BY PartialRunType DEF TypeOK, MemoryType, RunTimeout
  <1>3. ControlType'
    BY DEF TypeOK, ControlType, RunTimeout, Unwind, Goto, ghost, Requests, PcValues, Critical, BeforeRun, Saving, Replies, Outcomes
  <1>4. LocalType'
    BY DEF TypeOK, LocalType, RunTimeout, local, clocks
  <1>5. BoundWhenUsed'
    BY DEF TypeOK, BoundWhenUsed, ControlType, RunTimeout, Unwind, Goto, local, Requests, Critical, BeforeRun, Saving
  <1> QED
    BY <1>1, <1>2, <1>3, <1>4, <1>5 DEF TypeOK

(* RunFails keeps every type.                                              *)
LEMMA RunFailsType ==
  ASSUME TypeOK, NEW r \in Message, RunFails(r)
  PROVE  TypeOK'
  <1>1. RedisType'
    BY DEF TypeOK, RedisType, RunFails, redis
  <1>2. MemoryType'
    BY PartialRunType DEF TypeOK, MemoryType, RunFails
  <1>3. ControlType'
    BY DEF TypeOK, ControlType, RunFails, Unwind, Goto, ghost, Requests, PcValues, Critical, BeforeRun, Saving, Replies, Outcomes
  <1>4. LocalType'
    BY DEF TypeOK, LocalType, RunFails, local, clocks
  <1>5. BoundWhenUsed'
    BY DEF TypeOK, BoundWhenUsed, ControlType, RunFails, Unwind, Goto, local, Requests, Critical, BeforeRun, Saving
  <1> QED
    BY <1>1, <1>2, <1>3, <1>4, <1>5 DEF TypeOK

(* SaveGet keeps every type.                                               *)
LEMMA SaveGetType ==
  ASSUME TypeOK, NEW r \in Message, SaveGet(r)
  PROVE  TypeOK'
  <1>1. RedisType'
    BY DEF TypeOK, RedisType, SaveGet, redis
  <1>2. MemoryType'
    BY DEF TypeOK, MemoryType, SaveGet, memory
  <1>3. ControlType'
    BY DEF TypeOK, ControlType, SaveGet, Unwind, Goto, ghost, Requests, PcValues, Critical, BeforeRun, Saving, Replies, Outcomes
  <1>4. LocalType'
    BY DEF TypeOK, LocalType, SaveGet, local, clocks
  <1>5. BoundWhenUsed'
    BY DEF TypeOK, BoundWhenUsed, ControlType, SaveGet, Unwind, Goto, local, Requests, Critical, BeforeRun, Saving
  <1> QED
    BY <1>1, <1>2, <1>3, <1>4, <1>5 DEF TypeOK

(* SaveSet keeps every type.                                               *)
LEMMA SaveSetType ==
  ASSUME TypeOK, NEW r \in Message, NEW heard \in BOOLEAN, SaveSet(r, heard)
  PROVE  TypeOK'
  <1>1. RedisType'
    <2>1. target[r] \in Session /\ data[r] \in Record
      BY DEF TypeOK, BoundWhenUsed, SaveSet, Requests, Critical, Saving
    <2> QED
      BY <2>1, TimesAreNatural DEF TypeOK, RedisType, SaveSet, Write
  <1>2. MemoryType'
    BY DEF TypeOK, MemoryType, SaveSet, memory
  <1>3. ControlType'
    BY DEF TypeOK, ControlType, SaveSet, Unwind, Goto, ghost, Requests, PcValues, Critical, BeforeRun, Saving, Replies, Outcomes
  <1>4. LocalType'
    BY DEF TypeOK, LocalType, SaveSet, local, clocks
  <1>5. BoundWhenUsed'
    BY DEF TypeOK, BoundWhenUsed, ControlType, SaveSet, Unwind, Goto, local, Requests, Critical, BeforeRun, Saving
  <1> QED
    BY <1>1, <1>2, <1>3, <1>4, <1>5 DEF TypeOK

(* Release keeps every type.                                               *)
LEMMA ReleaseType ==
  ASSUME TypeOK, NEW r \in Message, NEW done \in BOOLEAN, NEW heard \in BOOLEAN, Release(r, done, heard)
  PROVE  TypeOK'
  <1>1. RedisType'
    <2>1. CASE done /\ OwnsLock(r)
      BY <2>1 DEF TypeOK, RedisType, Release, FreeLock
    <2>2. CASE ~(done /\ OwnsLock(r))
      BY <2>2 DEF TypeOK, RedisType, Release, FreeLock
    <2> QED
      BY <2>1, <2>2
  <1>2. MemoryType'
    BY DEF TypeOK, MemoryType, Release, memory
  <1>3. ControlType'
    BY DEF TypeOK, ControlType, Release, Finish, Goto, ghost, Requests, PcValues, Replies, Outcomes
  <1>4. LocalType'
    BY DEF TypeOK, LocalType, Release, local, clocks
  <1>5. BoundWhenUsed'
    BY DEF TypeOK, BoundWhenUsed, ControlType, Release, Finish, Goto, local, Requests, Critical, BeforeRun, Saving
  <1> QED
    BY <1>1, <1>2, <1>3, <1>4, <1>5 DEF TypeOK

(* Fail keeps every type.                                                  *)
LEMMA FailType ==
  ASSUME TypeOK, NEW r \in Message, Fail(r)
  PROVE  TypeOK'
  <1>1. RedisType'
    BY DEF TypeOK, RedisType, Fail, redis
  <1>2. MemoryType'
    BY DEF TypeOK, MemoryType, Fail, memory
  <1>3. ControlType'
    BY DEF TypeOK, ControlType, Fail, Unwind, Finish, Goto, ghost, Requests, PcValues, Critical, BeforeRun, Saving, Replies, Outcomes
  <1>4. LocalType'
    BY DEF TypeOK, LocalType, Fail, local, clocks
  <1>5. BoundWhenUsed'
    <2>1. pc \in [Requests -> PcValues] /\ pc[r] # "idle" /\ r \in Requests
      BY DEF TypeOK, ControlType, Requests, Fail, Waiting, Critical, BeforeRun, Saving
    <2>2. \A q \in Requests : pc'[q] # "idle" => pc[q] # "idle"
      BY <2>1 DEF Fail, Unwind, Finish, Goto
    <2>3. \A q \in Message : pc'[q] \in Critical \ {"reread"} => pc'[q] = pc[q]
      BY <2>1 DEF Fail, Unwind, Finish, Goto, Critical, BeforeRun, Saving, Requests
    <2> QED
      BY <2>2, <2>3 DEF TypeOK, BoundWhenUsed, Fail, local, Critical, BeforeRun, Saving
  <1> QED
    BY <1>1, <1>2, <1>3, <1>4, <1>5 DEF TypeOK

(* DelLookup keeps every type.                                             *)
LEMMA DelLookupType ==
  ASSUME TypeOK, NEW d \in Deletion, NEW p \in Replica, NEW s \in Session, DelLookup(d, p, s)
  PROVE  TypeOK'
  <1>1. RedisType'
    BY DEF TypeOK, RedisType, DelLookup, redis
  <1>2. MemoryType'
    BY DEF TypeOK, MemoryType, DelLookup, memory
  <1>3. ControlType'
    BY DEF TypeOK, ControlType, DelLookup, Route, Finish, Goto, ghost, Requests, PcValues, Replies, Outcomes
  <1>4. LocalType'
    BY DEF TypeOK, LocalType, DelLookup, Route, clocks
  <1>5. BoundWhenUsed'
    <2>1. /\ pc \in [Requests -> PcValues] /\ d \in Requests
          /\ home \in [Requests -> Replica \cup {None}]
          /\ target \in [Requests -> Session \cup {None}]
      BY DEF TypeOK, ControlType, LocalType, Requests
    <2>2. \A q \in Requests :
            pc'[q] # "idle" => home'[q] \in Replica /\ target'[q] \in Session
      BY <2>1 DEF TypeOK, BoundWhenUsed, DelLookup, Route, Finish, Goto
    <2>3. \A q \in Message : pc'[q] \in Critical => pc'[q] = pc[q]
      BY <2>1, DisjointRequests
      DEF DelLookup, Route, Finish, Goto, Critical, BeforeRun, Saving, Requests
    <2> QED
      BY <2>2, <2>3 DEF TypeOK, BoundWhenUsed, DelLookup, Critical, BeforeRun, Saving
  <1> QED
    BY <1>1, <1>2, <1>3, <1>4, <1>5 DEF TypeOK

(* Pop keeps every type.                                                   *)
LEMMA PopType ==
  ASSUME TypeOK, NEW d \in Deletion, Pop(d)
  PROVE  TypeOK'
  <1>1. RedisType'
    BY DEF TypeOK, RedisType, Pop, redis
  <1>2. MemoryType'
    BY DEF TypeOK, MemoryType, Pop, Uncache
  <1>3. ControlType'
    BY DEF TypeOK, ControlType, Pop, Goto, ghost, Requests, PcValues
  <1>4. LocalType'
    <2>1. instances[home[d]][target[d]] \in AgentId \cup {None}
      BY DEF TypeOK, MemoryType, BoundWhenUsed, Pop, Requests
    <2> QED
      BY <2>1 DEF TypeOK, LocalType, Pop, clocks
  <1>5. BoundWhenUsed'
    BY NoneIsNothing, DisjointRequests DEF TypeOK, BoundWhenUsed, ControlType, LocalType, Pop, Goto, local, Requests, Critical, BeforeRun, Saving
  <1> QED
    BY <1>1, <1>2, <1>3, <1>4, <1>5 DEF TypeOK

(* Del keeps every type.                                                   *)
LEMMA DelType ==
  ASSUME TypeOK, NEW d \in Deletion, NEW done \in BOOLEAN, NEW heard \in BOOLEAN, Del(d, done, heard)
  PROVE  TypeOK'
  <1>1. RedisType'
    <2>1. CASE done
      BY <2>1 DEF TypeOK, RedisType, Del
    <2>2. CASE ~done
      BY <2>2 DEF TypeOK, RedisType, Del
    <2> QED
      BY <2>1, <2>2
  <1>2. MemoryType'
    BY DEF TypeOK, MemoryType, Del, memory
  <1>3. ControlType'
    BY DEF TypeOK, ControlType, Del, Finish, Goto, ghost, Requests, PcValues, Replies, Outcomes
  <1>4. LocalType'
    BY DEF TypeOK, LocalType, Del, local, clocks
  <1>5. BoundWhenUsed'
    BY DisjointRequests DEF TypeOK, BoundWhenUsed, ControlType, Del, Finish, Goto, local, Requests, Critical, BeforeRun, Saving
  <1> QED
    BY <1>1, <1>2, <1>3, <1>4, <1>5 DEF TypeOK

(* Close keeps every type.                                                 *)
LEMMA CloseType ==
  ASSUME TypeOK, NEW d \in Deletion, Close(d)
  PROVE  TypeOK'
  <1>1. RedisType'
    BY DEF TypeOK, RedisType, Close, redis
  <1>2. MemoryType'
    <2>1. agentOf[d] \in AgentId \cup {None}
      BY DEF TypeOK, LocalType
    <2> QED
      BY <2>1 DEF TypeOK, MemoryType, Close
  <1>3. ControlType'
    BY DEF TypeOK, ControlType, Close, Goto, ghost, Requests, PcValues
  <1>4. LocalType'
    BY DEF TypeOK, LocalType, Close, local, clocks
  <1>5. BoundWhenUsed'
    BY DisjointRequests DEF TypeOK, BoundWhenUsed, ControlType, Close, Goto, local, Requests, Critical, BeforeRun, Saving
  <1> QED
    BY <1>1, <1>2, <1>3, <1>4, <1>5 DEF TypeOK

(* CreateStore keeps every type.                                           *)
LEMMA CreateStoreType ==
  ASSUME TypeOK, NEW c \in Creation, NEW p \in Replica, NEW s \in Session, CreateStore(c, p, s)
  PROVE  TypeOK'
  <1>1. RedisType'
    BY TimesAreNatural DEF TypeOK, RedisType, CreateStore, Record, Blank
  <1>2. MemoryType'
    BY DEF TypeOK, MemoryType, CreateStore, memory
  <1>3. ControlType'
    BY DEF TypeOK, ControlType, CreateStore, Route, Goto, PcValues
  <1>4. LocalType'
    BY DEF TypeOK, LocalType, CreateStore, Route, clocks
  <1>5. BoundWhenUsed'
    <2>1. /\ pc \in [Requests -> PcValues] /\ c \in Requests
          /\ home \in [Requests -> Replica \cup {None}]
          /\ target \in [Requests -> Session \cup {None}]
      BY DEF TypeOK, ControlType, LocalType, Requests
    <2>2. \A q \in Requests :
            pc'[q] # "idle" => home'[q] \in Replica /\ target'[q] \in Session
      BY <2>1 DEF TypeOK, BoundWhenUsed, CreateStore, Route, Goto
    <2>3. \A q \in Message : pc'[q] \in Critical => pc'[q] = pc[q]
      BY <2>1, DisjointRequests
      DEF CreateStore, Route, Goto, Critical, BeforeRun, Saving, Requests
    <2> QED
      BY <2>2, <2>3 DEF TypeOK, BoundWhenUsed, CreateStore, Critical, BeforeRun, Saving
  <1> QED
    BY <1>1, <1>2, <1>3, <1>4, <1>5 DEF TypeOK

(* Install keeps every type.                                               *)
LEMMA InstallType ==
  ASSUME TypeOK, NEW c \in Creation, Install(c)
  PROVE  TypeOK'
  <1>1. RedisType'
    BY DEF TypeOK, RedisType, Install, redis
  <1>2. MemoryType'
    BY DEF TypeOK, MemoryType, Install, AgentId
  <1>3. ControlType'
    BY DEF TypeOK, ControlType, Install, Finish, Goto, ghost, Requests, PcValues, Replies, Outcomes
  <1>4. LocalType'
    BY DEF TypeOK, LocalType, Install, local, clocks
  <1>5. BoundWhenUsed'
    BY DisjointRequests DEF TypeOK, BoundWhenUsed, ControlType, Install, Finish, Goto, local, Requests, Critical, BeforeRun, Saving
  <1> QED
    BY <1>1, <1>2, <1>3, <1>4, <1>5 DEF TypeOK

(* InstallFails keeps every type.                                          *)
LEMMA InstallFailsType ==
  ASSUME TypeOK, NEW c \in Creation, InstallFails(c)
  PROVE  TypeOK'
  <1>1. RedisType'
    BY DEF TypeOK, RedisType, InstallFails, redis
  <1>2. MemoryType'
    BY DEF TypeOK, MemoryType, InstallFails, memory
  <1>3. ControlType'
    BY DEF TypeOK, ControlType, InstallFails, Finish, Goto, ghost, Requests, PcValues, Replies, Outcomes
  <1>4. LocalType'
    BY DEF TypeOK, LocalType, InstallFails, local, clocks
  <1>5. BoundWhenUsed'
    BY DisjointRequests DEF TypeOK, BoundWhenUsed, ControlType, InstallFails, Finish, Goto, local, Requests, Critical, BeforeRun, Saving
  <1> QED
    BY <1>1, <1>2, <1>3, <1>4, <1>5 DEF TypeOK

(* Tick keeps every type.                                                  *)
LEMMA TickType ==
  ASSUME TypeOK, Tick
  PROVE  TypeOK'
  <1>1. RedisType'
    BY DEF TypeOK, RedisType, Tick, CountDown
  <1>2. MemoryType'
    BY DEF TypeOK, MemoryType, Tick, memory
  <1>3. ControlType'
    BY DEF TypeOK, ControlType, Tick, ghost
  <1>4. LocalType'
    BY DEF TypeOK, LocalType, Tick, CountDown, local
  <1>5. BoundWhenUsed'
    BY DEF TypeOK, BoundWhenUsed, Tick, local
  <1> QED
    BY <1>1, <1>2, <1>3, <1>4, <1>5 DEF TypeOK

(* Crash keeps every type.                                                 *)
LEMMA CrashType ==
  ASSUME TypeOK, NEW p \in Replica, Crash(p)
  PROVE  TypeOK'
  <1>1. RedisType'
    BY DEF TypeOK, RedisType, Crash, redis
  <1>2. MemoryType'
    BY DEF TypeOK, MemoryType, Crash
  <1>3. ControlType'
    BY DEF TypeOK, ControlType, Crash, PcValues, Replies, Outcomes
  <1>4. LocalType'
    BY DEF TypeOK, LocalType, Crash, local, clocks
  <1>5. BoundWhenUsed'
    <2>1. \A q \in Requests : pc'[q] = pc[q] \/ (pc[q] # "idle" /\ pc'[q] = "done")
      BY DEF TypeOK, ControlType, Crash, Lost
    <2> QED
      BY <2>1 DEF TypeOK, BoundWhenUsed, Crash, local, Requests, Critical, BeforeRun, Saving
  <1> QED
    BY <1>1, <1>2, <1>3, <1>4, <1>5 DEF TypeOK

(* No step breaks a type.                                                  *)
LEMMA TypeStep ==
  ASSUME TypeOK, [Next]_vars
  PROVE  TypeOK'
  <1>1. CASE UNCHANGED vars
    BY <1>1 DEF TypeOK, RedisType, MemoryType, ControlType, LocalType,
         BoundWhenUsed, vars, redis, memory, local, clocks, ghost
  <1>2. ASSUME NEW r \in Message, MessageStep(r)
        PROVE  TypeOK'
    BY <1>2, ArriveType, AcquireType, RereadType, AttachType, TouchType,
       RunDoneType, RunTimeoutType, RunFailsType, SaveGetType, SaveSetType,
       ReleaseType, FailType
    DEF MessageStep
  <1>3. ASSUME NEW d \in Deletion, DeletionStep(d)
        PROVE  TypeOK'
    BY <1>3, DelLookupType, PopType, DelType, CloseType DEF DeletionStep
  <1>4. ASSUME NEW c \in Creation, CreationStep(c)
        PROVE  TypeOK'
    BY <1>4, CreateStoreType, InstallType, InstallFailsType DEF CreationStep
  <1>5. CASE Tick
    BY <1>5, TickType
  <1>6. ASSUME NEW p \in Replica, Crash(p)
        PROVE  TypeOK'
    BY <1>6, CrashType
  <1> QED
    BY <1>1, <1>2, <1>3, <1>4, <1>5, <1>6 DEF Next

(* Every reachable state is well typed, and no coroutine uses a local      *)
(* before it is bound: in particular no message writes back a record it    *)
(* has not read (the None checks of send_message and save_history).        *)
THEOREM TypeCorrect == Spec => []TypeOK
  <1> QED
    BY TypeInit, TypeStep, PTL DEF Spec

-----------------------------------------------------------------------------
(* A message or a creation has no agent of its own in a cache before its   *)
(* attach or its install.                                                  *)
NotYet == {"idle", "acquire", "reread", "attach", "install"}
Attached(a) == pc[a] \notin NotYet

InCache(a) == \E p \in Replica, s \in Session : instances[p][s] = a

(* An agent is cached at one place only: on the replica and for the session*)
(* of the request that built it.                                           *)
CachedAtHome ==
  \A p \in Replica, s \in Session :
    instances[p][s] # None =>
      /\ Attached(instances[p][s])
      /\ home[instances[p][s]] = p /\ target[instances[p][s]] = s

(* What a deletion has popped is in no cache, and comes back to none.      *)
PoppedIsGone ==
  \A d \in Deletion :
    pc[d] \in {"del", "close"} /\ agentOf[d] # None =>
      Attached(agentOf[d]) /\ ~InCache(agentOf[d])

ClosedIsGone ==
  \A a \in closed : Attached(a) /\ ~InCache(a)

CacheInv ==
  /\ CachedAtHome
  /\ PoppedIsGone
  /\ ClosedIsGone

(* What the steps have in common that neither fill a cache nor take an     *)
(* agent out of one.                                                       *)
KeepsCaches ==
  /\ \A p \in Replica, s \in Session : instances'[p][s] \in {instances[p][s], None}
  /\ \A a \in AgentId :
       Attached(a) => pc'[a] \notin NotYet /\ home'[a] = home[a] /\ target'[a] = target[a]
  /\ \A d \in Deletion :
       pc'[d] \in {"del", "close"} =>
         pc[d] \in {"del", "close"} /\ agentOf'[d] = agentOf[d]
  /\ UNCHANGED closed

(* The types the proofs below rest on.                                     *)
LEMMA CacheTypes ==
  ASSUME TypeOK
  PROVE  /\ pc \in [Requests -> PcValues]
         /\ home \in [Requests -> Replica \cup {None}]
         /\ target \in [Requests -> Session \cup {None}]
         /\ instances \in [Replica -> [Session -> AgentId \cup {None}]]
         /\ closed \in SUBSET AgentId
         /\ agentOf \in [Message \cup Deletion -> AgentId \cup {None}]
         /\ \A q \in Requests : pc[q] # "idle" => home[q] \in Replica /\ target[q] \in Session
         /\ Message \subseteq Requests /\ Deletion \subseteq Requests /\ Creation \subseteq Requests
         /\ Message \subseteq AgentId /\ Creation \subseteq AgentId /\ AgentId \subseteq Requests
         /\ None \notin AgentId
  BY NoneIsNothing
  DEF TypeOK, ControlType, LocalType, MemoryType, BoundWhenUsed, Requests, AgentId

(* Such a step keeps the invariant.                                        *)
LEMMA CachesKept ==
  ASSUME TypeOK, CacheInv, KeepsCaches
  PROVE  CacheInv'
  <1>1. CachedAtHome'
    <2> SUFFICES ASSUME NEW p \in Replica, NEW s \in Session, instances'[p][s] # None
                 PROVE  /\ pc'[instances'[p][s]] \notin NotYet
                        /\ home'[instances'[p][s]] = p /\ target'[instances'[p][s]] = s
      BY DEF CachedAtHome, Attached
    <2>1. instances'[p][s] = instances[p][s] /\ instances[p][s] \in AgentId
      BY CacheTypes DEF KeepsCaches
    <2> QED
      BY <2>1 DEF CacheInv, CachedAtHome, KeepsCaches
  <1>2. ASSUME NEW a \in AgentId, Attached(a), ~InCache(a)
        PROVE  Attached(a)' /\ ~InCache(a)'
    BY <1>2, CacheTypes DEF Attached, InCache, KeepsCaches
  <1>3. PoppedIsGone'
    <2> SUFFICES ASSUME NEW d \in Deletion, pc'[d] \in {"del", "close"}, agentOf'[d] # None
                 PROVE  (Attached(agentOf[d]) /\ ~InCache(agentOf[d]))'
      BY DEF PoppedIsGone
    <2>1. /\ pc[d] \in {"del", "close"} /\ agentOf'[d] = agentOf[d]
          /\ agentOf[d] \in AgentId
      BY CacheTypes DEF KeepsCaches
    <2>2. Attached(agentOf[d]) /\ ~InCache(agentOf[d])
      BY <2>1 DEF CacheInv, PoppedIsGone
    <2>3. PICK a \in AgentId : a = agentOf[d]
      BY <2>1
    <2>4. Attached(a)' /\ ~InCache(a)'
      BY <1>2, <2>2, <2>3
    <2> QED
      BY <2>1, <2>3, <2>4 DEF Attached, InCache
  <1>4. ClosedIsGone'
    BY <1>2, CacheTypes DEF CacheInv, ClosedIsGone, KeepsCaches
  <1> QED
    BY <1>1, <1>3, <1>4 DEF CacheInv

(* Arrive leaves the caches alone.                                         *)
LEMMA ArriveCache ==
  ASSUME TypeOK, NEW r \in Message, NEW p \in Replica, NEW s \in Session, Arrive(r, p, s)
  PROVE  KeepsCaches
  BY CacheTypes, DisjointRequests
  DEF KeepsCaches, Attached, NotYet, Arrive, Route, Finish, Goto, memory, local, Critical, BeforeRun, Saving, Waiting

(* Acquire leaves the caches alone.                                        *)
LEMMA AcquireCache ==
  ASSUME TypeOK, NEW r \in Message, NEW heard \in BOOLEAN, Acquire(r, heard)
  PROVE  KeepsCaches
  BY CacheTypes, DisjointRequests
  DEF KeepsCaches, Attached, NotYet, Acquire, Finish, Goto, memory, local, Critical, BeforeRun, Saving, Waiting

(* Reread leaves the caches alone.                                         *)
LEMMA RereadCache ==
  ASSUME TypeOK, NEW r \in Message, Reread(r)
  PROVE  KeepsCaches
  BY CacheTypes, DisjointRequests
  DEF KeepsCaches, Attached, NotYet, Reread, Unwind, Goto, memory, local, Critical, BeforeRun, Saving, Waiting

(* Touch leaves the caches alone.                                          *)
LEMMA TouchCache ==
  ASSUME TypeOK, NEW r \in Message, Touch(r)
  PROVE  KeepsCaches
  BY CacheTypes, DisjointRequests
  DEF KeepsCaches, Attached, NotYet, Touch, Goto, memory, local, Critical, BeforeRun, Saving, Waiting

(* RunDone works on an agent, whoever has it cached.                       *)
LEMMA RunDoneCache ==
  ASSUME TypeOK, NEW r \in Message, RunDone(r)
  PROVE  KeepsCaches
  BY CacheTypes, DisjointRequests
  DEF KeepsCaches, Attached, NotYet, RunDone, Goto, memory, local, Critical, BeforeRun, Saving, Waiting

(* RunTimeout works on an agent, whoever has it cached.                    *)
LEMMA RunTimeoutCache ==
  ASSUME TypeOK, NEW r \in Message, RunTimeout(r)
  PROVE  KeepsCaches
  BY CacheTypes, DisjointRequests
  DEF KeepsCaches, Attached, NotYet, RunTimeout, Unwind, Goto, memory, local, Critical, BeforeRun, Saving, Waiting

(* RunFails works on an agent, whoever has it cached.                      *)
LEMMA RunFailsCache ==
  ASSUME TypeOK, NEW r \in Message, RunFails(r)
  PROVE  KeepsCaches
  BY CacheTypes, DisjointRequests
  DEF KeepsCaches, Attached, NotYet, RunFails, Unwind, Goto, memory, local, Critical, BeforeRun, Saving, Waiting

(* SaveGet leaves the caches alone.                                        *)
LEMMA SaveGetCache ==
  ASSUME TypeOK, NEW r \in Message, SaveGet(r)
  PROVE  KeepsCaches
  BY CacheTypes, DisjointRequests
  DEF KeepsCaches, Attached, NotYet, SaveGet, Unwind, Goto, memory, local, Critical, BeforeRun, Saving, Waiting

(* SaveSet leaves the caches alone.                                        *)
LEMMA SaveSetCache ==
  ASSUME TypeOK, NEW r \in Message, NEW heard \in BOOLEAN, SaveSet(r, heard)
  PROVE  KeepsCaches
  BY CacheTypes, DisjointRequests
  DEF KeepsCaches, Attached, NotYet, SaveSet, Unwind, Goto, memory, local, Critical, BeforeRun, Saving, Waiting

(* Release leaves the caches alone.                                        *)
LEMMA ReleaseCache ==
  ASSUME TypeOK, NEW r \in Message, NEW done \in BOOLEAN, NEW heard \in BOOLEAN, Release(r, done, heard)
  PROVE  KeepsCaches
  BY CacheTypes, DisjointRequests
  DEF KeepsCaches, Attached, NotYet, Release, Finish, Goto, memory, local, Critical, BeforeRun, Saving, Waiting

(* Fail leaves the caches alone: an agent stays for the next message.      *)
LEMMA FailCache ==
  ASSUME TypeOK, NEW r \in Message, Fail(r)
  PROVE  KeepsCaches
  BY CacheTypes, DisjointRequests
  DEF KeepsCaches, Attached, NotYet, Fail, Unwind, Finish, Goto, memory, local, Critical, BeforeRun, Saving, Waiting

(* DelLookup leaves the caches alone.                                      *)
LEMMA DelLookupCache ==
  ASSUME TypeOK, NEW d \in Deletion, NEW p \in Replica, NEW s \in Session, DelLookup(d, p, s)
  PROVE  KeepsCaches
  BY CacheTypes, DisjointRequests
  DEF KeepsCaches, Attached, NotYet, DelLookup, Route, Finish, Goto, memory, local, Critical, BeforeRun, Saving, Waiting

(* Del leaves the caches alone.                                            *)
LEMMA DelCache ==
  ASSUME TypeOK, NEW d \in Deletion, NEW done \in BOOLEAN, NEW heard \in BOOLEAN, Del(d, done, heard)
  PROVE  KeepsCaches
  BY CacheTypes, DisjointRequests
  DEF KeepsCaches, Attached, NotYet, Del, Finish, Goto, memory, local, Critical, BeforeRun, Saving, Waiting

(* CreateStore leaves the caches alone.                                    *)
LEMMA CreateStoreCache ==
  ASSUME TypeOK, NEW c \in Creation, NEW p \in Replica, NEW s \in Session, CreateStore(c, p, s)
  PROVE  KeepsCaches
  BY CacheTypes, DisjointRequests
  DEF KeepsCaches, Attached, NotYet, CreateStore, Route, Goto, memory, local, Critical, BeforeRun, Saving, Waiting

(* InstallFails leaves the caches alone.                                   *)
LEMMA InstallFailsCache ==
  ASSUME TypeOK, NEW c \in Creation, InstallFails(c)
  PROVE  KeepsCaches
  BY CacheTypes, DisjointRequests
  DEF KeepsCaches, Attached, NotYet, InstallFails, Finish, Goto, memory, local, Critical, BeforeRun, Saving, Waiting

(* Tick leaves the caches alone: an expired session keeps its agent.       *)
LEMMA TickCache ==
  ASSUME TypeOK, Tick
  PROVE  KeepsCaches
  BY DEF KeepsCaches, Attached, Tick, memory, local

(* Crash empties the cache of its replica.                                 *)
LEMMA CrashCache ==
  ASSUME TypeOK, NEW p \in Replica, Crash(p)
  PROVE  KeepsCaches
  BY CacheTypes DEF KeepsCaches, Attached, NotYet, Crash, Lost, local

(* A request that caches its own agent, not cached anywhere before.        *)
LEMMA AgentCached ==
  ASSUME TypeOK, CacheInv, NEW b \in AgentId, ~Attached(b), pc[b] # "idle",
         pc'[b] \notin NotYet, \A q \in Requests \ {b} : pc'[q] = pc[q],
         instances' = [instances EXCEPT ![home[b]][target[b]] = b],
         UNCHANGED <<home, target, closed>>,
         \A d \in Deletion : agentOf'[d] = agentOf[d]
  PROVE  CacheInv'
  <1>1. /\ home[b] \in Replica /\ target[b] \in Session /\ b \in Requests
        /\ \A p \in Replica, s \in Session :
             \/ instances'[p][s] = instances[p][s]
             \/ instances'[p][s] = b /\ p = home[b] /\ s = target[b]
    BY CacheTypes
  <1>2. CachedAtHome'
    <2> SUFFICES ASSUME NEW p \in Replica, NEW s \in Session, instances'[p][s] # None
                 PROVE  /\ pc'[instances'[p][s]] \notin NotYet
                        /\ home[instances'[p][s]] = p /\ target[instances'[p][s]] = s
      BY DEF CachedAtHome, Attached
    <2>1. CASE instances'[p][s] = instances[p][s]
      <3>1. instances[p][s] \in AgentId /\ Attached(instances[p][s])
            /\ home[instances[p][s]] = p /\ target[instances[p][s]] = s
        BY <2>1, CacheTypes DEF CacheInv, CachedAtHome
      <3> QED
        BY <2>1, <3>1, CacheTypes DEF Attached
    <2>2. CASE instances'[p][s] = b /\ p = home[b] /\ s = target[b]
      BY <2>2
    <2> QED
      BY <1>1, <2>1, <2>2
  <1>3. ASSUME NEW a \in AgentId, Attached(a), ~InCache(a)
        PROVE  Attached(a)' /\ ~InCache(a)'
    <2>1. a # b /\ a \in Requests
      BY <1>3, CacheTypes
    <2> QED
      BY <1>1, <1>3, <2>1 DEF Attached, InCache
  <1>4. PoppedIsGone'
    <2> SUFFICES ASSUME NEW d \in Deletion, pc'[d] \in {"del", "close"}, agentOf'[d] # None
                 PROVE  (Attached(agentOf[d]) /\ ~InCache(agentOf[d]))'
      BY DEF PoppedIsGone
    <2>1. pc[d] \in {"del", "close"} /\ agentOf'[d] = agentOf[d] /\ agentOf[d] \in AgentId
      BY CacheTypes, DisjointRequests DEF AgentId
    <2>2. Attached(agentOf[d]) /\ ~InCache(agentOf[d])
      BY <2>1 DEF CacheInv, PoppedIsGone
    <2>3. PICK a \in AgentId : a = agentOf[d]
      BY <2>1
    <2>4. Attached(a)' /\ ~InCache(a)'
      BY <1>3, <2>2, <2>3
    <2> QED
      BY <2>1, <2>3, <2>4 DEF Attached, InCache
  <1>5. ClosedIsGone'
    BY <1>3, CacheTypes DEF CacheInv, ClosedIsGone
  <1> QED
    BY <1>2, <1>4, <1>5 DEF CacheInv

(* Attach uses the agent that is cached, or caches its own.                *)
LEMMA AttachCache ==
  ASSUME TypeOK, CacheInv, NEW r \in Message, Attach(r)
  PROVE  CacheInv'
  <1>1. /\ pc[r] = "attach" /\ pc' = [pc EXCEPT ![r] = "touch"]
        /\ UNCHANGED <<home, target, closed>>
        /\ \A d \in Deletion : agentOf'[d] = agentOf[d]
    BY CacheTypes, DisjointRequests DEF Attach, Goto
  <1>2. CASE instances[home[r]][target[r]] # None
    <2>1. instances' = instances
      BY <1>2 DEF Attach, Cached
    <2>2. KeepsCaches
      BY <1>1, <2>1, CacheTypes, DisjointRequests DEF KeepsCaches, Attached, NotYet
    <2> QED
      BY <2>2, CachesKept
  <1>3. CASE instances[home[r]][target[r]] = None
    <2>1. instances' = [instances EXCEPT ![home[r]][target[r]] = r]
      BY <1>3 DEF Attach, Cached
    <2> QED
      BY <1>1, <2>1, CacheTypes, AgentCached DEF Attached, NotYet
  <1> QED
    BY <1>2, <1>3

(* Install caches the agent of a new session.                              *)
LEMMA InstallCache ==
  ASSUME TypeOK, CacheInv, NEW c \in Creation, Install(c)
  PROVE  CacheInv'
  <1>1. /\ pc[c] = "install" /\ pc' = [pc EXCEPT ![c] = "done"]
        /\ UNCHANGED <<home, target, closed, agentOf>>
        /\ instances' = [instances EXCEPT ![home[c]][target[c]] = c]
    BY DEF Install, Finish, Goto, local
  <1> QED
    BY <1>1, CacheTypes, AgentCached DEF Attached, NotYet

(* Pop takes an agent out of the only place where it is cached.            *)
LEMMA PopCache ==
  ASSUME TypeOK, CacheInv, NEW d \in Deletion, Pop(d)
  PROVE  CacheInv'
  <1>1. /\ pc[d] = "pop" /\ pc' = [pc EXCEPT ![d] = "del"]
        /\ UNCHANGED <<home, target, closed>>
        /\ agentOf' = [agentOf EXCEPT ![d] = instances[home[d]][target[d]]]
        /\ instances' = [instances EXCEPT ![home[d]][target[d]] = None]
    BY DEF Pop, Uncache, Goto
  <1>2. /\ home[d] \in Replica /\ target[d] \in Session
        /\ \A p \in Replica, s \in Session :
             \/ instances'[p][s] = instances[p][s] /\ ~(p = home[d] /\ s = target[d])
             \/ instances'[p][s] = None
    BY <1>1, CacheTypes
  <1>3. \A a \in AgentId : pc'[a] = pc[a]
    BY <1>1, CacheTypes, DisjointRequests DEF AgentId
  <1>4. CachedAtHome'
    <2> SUFFICES ASSUME NEW p \in Replica, NEW s \in Session, instances'[p][s] # None
                 PROVE  /\ pc'[instances'[p][s]] \notin NotYet
                        /\ home[instances'[p][s]] = p /\ target[instances'[p][s]] = s
      BY <1>1 DEF CachedAtHome, Attached
    <2>1. instances'[p][s] = instances[p][s] /\ instances[p][s] \in AgentId
      BY <1>2, CacheTypes
    <2> QED
      BY <1>3, <2>1 DEF CacheInv, CachedAtHome, Attached
  <1>5. ASSUME NEW a \in AgentId, Attached(a), ~InCache(a)
        PROVE  Attached(a)' /\ ~InCache(a)'
    BY <1>2, <1>3, <1>5, CacheTypes DEF Attached, InCache
  <1>6. ASSUME NEW a \in AgentId, a = instances[home[d]][target[d]]
        PROVE  Attached(a)' /\ ~InCache(a)'
    <2>1. Attached(a) /\ \A p \in Replica, s \in Session :
            instances[p][s] = a => p = home[d] /\ s = target[d]
      BY <1>2, <1>6, CacheTypes DEF CacheInv, CachedAtHome
    <2> QED
      BY <1>2, <1>3, <2>1, CacheTypes DEF Attached, InCache
  <1>7. PoppedIsGone'
    <2> SUFFICES ASSUME NEW e \in Deletion, pc'[e] \in {"del", "close"}, agentOf'[e] # None
                 PROVE  (Attached(agentOf[e]) /\ ~InCache(agentOf[e]))'
      BY DEF PoppedIsGone
    <2>1. PICK a \in AgentId :
            /\ a = agentOf'[e]
            /\ a = instances[home[d]][target[d]] \/ (Attached(a) /\ ~InCache(a))
      <3>1. CASE e = d
        BY <1>1, <1>2, <3>1, CacheTypes
      <3>2. CASE e # d
        <4>1. pc[e] \in {"del", "close"} /\ agentOf'[e] = agentOf[e] /\ agentOf[e] \in AgentId
          BY <1>1, <3>2, CacheTypes
        <4> QED
          BY <4>1 DEF CacheInv, PoppedIsGone
      <3> QED
        BY <3>1, <3>2
    <2>2. Attached(a)' /\ ~InCache(a)'
      BY <1>5, <1>6, <2>1
    <2> QED
      BY <2>1, <2>2 DEF Attached, InCache
  <1>8. ClosedIsGone'
    BY <1>1, <1>5, CacheTypes DEF CacheInv, ClosedIsGone
  <1> QED
    BY <1>4, <1>7, <1>8 DEF CacheInv

(* Close closes what Pop took out.                                         *)
LEMMA CloseCache ==
  ASSUME TypeOK, CacheInv, NEW d \in Deletion, Close(d)
  PROVE  CacheInv'
  <1>1. /\ pc[d] = "close" /\ pc' = [pc EXCEPT ![d] = "done"]
        /\ UNCHANGED <<instances, home, target, agentOf>>
        /\ closed' = closed \cup ({agentOf[d]} \ {None})
    BY DEF Close, Goto, local
  <1>2. /\ \A a \in AgentId : pc'[a] = pc[a]
        /\ \A e \in Deletion : pc'[e] \in {"del", "close"} => pc'[e] = pc[e]
    BY <1>1, CacheTypes, DisjointRequests DEF AgentId
  <1>3. CachedAtHome'
    BY <1>1, <1>2, CacheTypes DEF CacheInv, CachedAtHome, Attached
  <1>4. PoppedIsGone'
    BY <1>1, <1>2, CacheTypes DEF CacheInv, PoppedIsGone, Attached, InCache
  <1>5. ClosedIsGone'
    BY <1>1, <1>2, CacheTypes DEF CacheInv, PoppedIsGone, ClosedIsGone, Attached, InCache
  <1> QED
    BY <1>3, <1>4, <1>5 DEF CacheInv

(* No step breaks the invariant.                                           *)
LEMMA CacheStep ==
  ASSUME TypeOK, CacheInv, [Next]_vars
  PROVE  CacheInv'
  <1>1. CASE UNCHANGED vars
    <2>1. KeepsCaches
      BY <1>1 DEF KeepsCaches, Attached, vars, memory, local
    <2> QED
      BY <2>1, CachesKept
  <1>2. ASSUME NEW r \in Message, MessageStep(r)
        PROVE  CacheInv'
    BY <1>2, CachesKept, AttachCache, ArriveCache, AcquireCache, RereadCache, TouchCache,
       RunDoneCache, RunTimeoutCache, RunFailsCache, SaveGetCache, SaveSetCache,
       ReleaseCache, FailCache
    DEF MessageStep
  <1>3. ASSUME NEW d \in Deletion, DeletionStep(d)
        PROVE  CacheInv'
    BY <1>3, CachesKept, DelLookupCache, PopCache, DelCache, CloseCache DEF DeletionStep
  <1>4. ASSUME NEW c \in Creation, CreationStep(c)
        PROVE  CacheInv'
    BY <1>4, CachesKept, CreateStoreCache, InstallCache, InstallFailsCache DEF CreationStep
  <1> QED
    BY <1>1, <1>2, <1>3, <1>4, CachesKept, TickCache, CrashCache DEF Next

(* The invariant holds of every reachable state.                           *)
THEOREM CachesHold == Spec => []CacheInv
  <1>1. Init => CacheInv
    BY DEF Init, CacheInv, CachedAtHome, PoppedIsGone, ClosedIsGone, Requests
  <1>2. TypeOK /\ CacheInv /\ [Next]_vars => CacheInv'
    BY CacheStep
  <1> QED
    BY <1>1, <1>2, TypeCorrect, PTL DEF Spec

(* No message is ever given an agent that was closed.                      *)
THEOREM ClosedAgentsAreGone == Spec => []NoClosedAgentCached
  <1>1. TypeOK /\ CacheInv => NoClosedAgentCached
    BY CacheTypes DEF CacheInv, ClosedIsGone, InCache, NoClosedAgentCached
  <1> QED
    BY <1>1, TypeCorrect, CachesHold, PTL

=============================================================================
