-------------------------- MODULE ConversationProofs --------------------------
(***************************************************************************)
(* The session service implements Conversation, for any number of          *)
(* replicas, sessions and messages, any lost replies, crashes and expiry:  *)
(* as long as nobody deletes a session, and a session that is renewed      *)
(* outlives the run and the waits of the message that renewed it.  What    *)
(* goes wrong otherwise show the runs resurrect and mid_request_expiry.    *)
(* Even with deletions, then, no session expires under a run.              *)
(***************************************************************************)
EXTENDS HistoryProofs

(* Between its touch and its save a message finds its session gone, or it  *)
(* has more time left than the message needs.                              *)
RenewedInTime ==
  \A r \in Message :
    /\ pc[r] \in Critical => slack[r] <= Slack
    /\ pc[r] \in {"run"} \cup Saving /\ store[target[r]] # None =>
         ttl[target[r]] > Remaining(r)

(* Unless somebody deletes it, the session a message has found before its  *)
(* save is still there when it saves.                                      *)
SavesOverRecord ==
  \A r \in Message : pc[r] = "saveSet" => store[target[r]] # None

(* What the steps have in common that write no key and start no run.       *)
TakesNoTime ==
  /\ UNCHANGED <<store, ttl>>
  /\ \A q \in Message :
       /\ pc'[q] \in Critical => slack'[q] <= Slack
       /\ pc'[q] \in {"run"} \cup Saving =>
            /\ pc[q] \in {"run"} \cup Saving /\ target'[q] = target[q]
            /\ Remaining(q)' <= Remaining(q)

(* The types the proofs below rest on.                                     *)
LEMMA RenewalTypes ==
  ASSUME TypeOK
  PROVE  /\ pc \in [Requests -> PcValues]
         /\ store \in [Session -> Record \cup {None}]
         /\ ttl \in [Session -> Nat]
         /\ slack \in [Message -> Nat] /\ timer \in [Message -> Nat]
         /\ \A q \in Message : pc[q] \in Critical => target[q] \in Session
         /\ Message \subseteq Requests /\ Deletion \subseteq Requests /\ Creation \subseteq Requests
  BY DEF TypeOK, ControlType, LocalType, RedisType, BoundWhenUsed, Requests,
         Critical, BeforeRun, Saving

(* Such a step keeps the invariant.                                        *)
LEMMA NoTimeTaken ==
  ASSUME TypeOK, TypeOK', RenewedInTime, TakesNoTime
  PROVE  RenewedInTime'
  <1> SUFFICES ASSUME NEW q \in Message, pc'[q] \in {"run"} \cup Saving,
                      store'[target'[q]] # None
               PROVE  ttl'[target'[q]] > Remaining(q)'
    BY DEF RenewedInTime, TakesNoTime
  <1>1. /\ pc[q] \in {"run"} \cup Saving /\ target'[q] = target[q]
        /\ Remaining(q)' <= Remaining(q)
        /\ store' = store /\ ttl' = ttl
    BY DEF TakesNoTime
  <1>2. target[q] \in Session
    BY <1>1, RenewalTypes DEF Critical
  <1>3. ttl[target[q]] > Remaining(q)
    BY <1>1 DEF RenewedInTime
  <1>4. Remaining(q) \in Nat /\ ttl[target[q]] \in Nat
    BY <1>2, RemainingType, RenewalTypes
  <1>5. Remaining(q)' \in Nat
    BY TimesAreNatural DEF TypeOK, LocalType, Remaining
  <1> QED
    BY <1>1, <1>3, <1>4, <1>5

(* Arrive does not enter.                                                  *)
LEMMA ArriveRenewal ==
  ASSUME TypeOK, TypeOK', RenewedInTime, NEW r \in Message, NEW p \in Replica, NEW s \in Session, Arrive(r, p, s)
  PROVE  RenewedInTime'
  <1>1. TakesNoTime
    BY RenewalTypes, DisjointRequests, TimesAreNatural
    DEF TakesNoTime, Arrive, Goto, Route, Finish, redis, local, clocks, Remaining, RenewedInTime,
        Waiting, Critical, BeforeRun, Saving
  <1> QED
    BY <1>1, NoTimeTaken

(* Acquire enters with its whole slack.                                    *)
LEMMA AcquireRenewal ==
  ASSUME TypeOK, TypeOK', RenewedInTime, NEW r \in Message, NEW heard \in BOOLEAN, Acquire(r, heard)
  PROVE  RenewedInTime'
  <1>1. TakesNoTime
    BY RenewalTypes, DisjointRequests, TimesAreNatural
    DEF TakesNoTime, Acquire, Goto, Finish, redis, local, clocks, Remaining, RenewedInTime,
        Waiting, Critical, BeforeRun, Saving
  <1> QED
    BY <1>1, NoTimeTaken

(* Reread touches neither keys nor clocks.                                 *)
LEMMA RereadRenewal ==
  ASSUME TypeOK, TypeOK', RenewedInTime, NEW r \in Message, Reread(r)
  PROVE  RenewedInTime'
  <1>1. TakesNoTime
    BY RenewalTypes, DisjointRequests, TimesAreNatural
    DEF TakesNoTime, Reread, Goto, Unwind, redis, local, clocks, Remaining, RenewedInTime,
        Waiting, Critical, BeforeRun, Saving
  <1> QED
    BY <1>1, NoTimeTaken

(* Attach touches neither keys nor clocks.                                 *)
LEMMA AttachRenewal ==
  ASSUME TypeOK, TypeOK', RenewedInTime, NEW r \in Message, Attach(r)
  PROVE  RenewedInTime'
  <1>1. TakesNoTime
    BY RenewalTypes, DisjointRequests, TimesAreNatural
    DEF TakesNoTime, Attach, Goto, redis, local, clocks, Remaining, RenewedInTime,
        Waiting, Critical, BeforeRun, Saving
  <1> QED
    BY <1>1, NoTimeTaken

(* RunDone leaves less to do.                                              *)
LEMMA RunDoneRenewal ==
  ASSUME TypeOK, TypeOK', RenewedInTime, NEW r \in Message, RunDone(r)
  PROVE  RenewedInTime'
  <1>1. TakesNoTime
    BY RenewalTypes, DisjointRequests, TimesAreNatural
    DEF TakesNoTime, RunDone, Goto, redis, local, clocks, Remaining, RenewedInTime,
        Waiting, Critical, BeforeRun, Saving
  <1> QED
    BY <1>1, NoTimeTaken

(* RunTimeout leads out.                                                   *)
LEMMA RunTimeoutRenewal ==
  ASSUME TypeOK, TypeOK', RenewedInTime, NEW r \in Message, RunTimeout(r)
  PROVE  RenewedInTime'
  <1>1. TakesNoTime
    BY RenewalTypes, DisjointRequests, TimesAreNatural
    DEF TakesNoTime, RunTimeout, Goto, Unwind, redis, local, clocks, Remaining, RenewedInTime,
        Waiting, Critical, BeforeRun, Saving
  <1> QED
    BY <1>1, NoTimeTaken

(* RunFails leads out.                                                     *)
LEMMA RunFailsRenewal ==
  ASSUME TypeOK, TypeOK', RenewedInTime, NEW r \in Message, RunFails(r)
  PROVE  RenewedInTime'
  <1>1. TakesNoTime
    BY RenewalTypes, DisjointRequests, TimesAreNatural
    DEF TakesNoTime, RunFails, Goto, Unwind, redis, local, clocks, Remaining, RenewedInTime,
        Waiting, Critical, BeforeRun, Saving
  <1> QED
    BY <1>1, NoTimeTaken

(* SaveGet leaves less to do.                                              *)
LEMMA SaveGetRenewal ==
  ASSUME TypeOK, TypeOK', RenewedInTime, NEW r \in Message, SaveGet(r)
  PROVE  RenewedInTime'
  <1>1. TakesNoTime
    BY RenewalTypes, DisjointRequests, TimesAreNatural
    DEF TakesNoTime, SaveGet, Goto, Unwind, redis, local, clocks, Remaining, RenewedInTime,
        Waiting, Critical, BeforeRun, Saving
  <1> QED
    BY <1>1, NoTimeTaken

(* Release leads out.                                                      *)
LEMMA ReleaseRenewal ==
  ASSUME TypeOK, TypeOK', RenewedInTime, NEW r \in Message, NEW done \in BOOLEAN, NEW heard \in BOOLEAN, Release(r, done, heard)
  PROVE  RenewedInTime'
  <1>1. TakesNoTime
    BY RenewalTypes, DisjointRequests, TimesAreNatural
    DEF TakesNoTime, Release, Goto, Finish, redis, local, clocks, Remaining, RenewedInTime,
        Waiting, Critical, BeforeRun, Saving
  <1> QED
    BY <1>1, NoTimeTaken

(* Fail leads out.                                                         *)
LEMMA FailRenewal ==
  ASSUME TypeOK, TypeOK', RenewedInTime, NEW r \in Message, Fail(r)
  PROVE  RenewedInTime'
  <1>1. TakesNoTime
    BY RenewalTypes, DisjointRequests, TimesAreNatural
    DEF TakesNoTime, Fail, Goto, Unwind, Finish, redis, local, clocks, Remaining, RenewedInTime,
        Waiting, Critical, BeforeRun, Saving
  <1> QED
    BY <1>1, NoTimeTaken

(* DelLookup moves no message.                                             *)
LEMMA DelLookupRenewal ==
  ASSUME TypeOK, TypeOK', RenewedInTime, NEW d \in Deletion, NEW p \in Replica, NEW s \in Session, DelLookup(d, p, s)
  PROVE  RenewedInTime'
  <1>1. TakesNoTime
    BY RenewalTypes, DisjointRequests, TimesAreNatural
    DEF TakesNoTime, DelLookup, Goto, Route, Finish, redis, local, clocks, Remaining, RenewedInTime,
        Waiting, Critical, BeforeRun, Saving
  <1> QED
    BY <1>1, NoTimeTaken

(* Pop moves no message.                                                   *)
LEMMA PopRenewal ==
  ASSUME TypeOK, TypeOK', RenewedInTime, NEW d \in Deletion, Pop(d)
  PROVE  RenewedInTime'
  <1>1. TakesNoTime
    BY RenewalTypes, DisjointRequests, TimesAreNatural
    DEF TakesNoTime, Pop, Goto, redis, local, clocks, Remaining, RenewedInTime,
        Waiting, Critical, BeforeRun, Saving
  <1> QED
    BY <1>1, NoTimeTaken

(* Close moves no message.                                                 *)
LEMMA CloseRenewal ==
  ASSUME TypeOK, TypeOK', RenewedInTime, NEW d \in Deletion, Close(d)
  PROVE  RenewedInTime'
  <1>1. TakesNoTime
    BY RenewalTypes, DisjointRequests, TimesAreNatural
    DEF TakesNoTime, Close, Goto, redis, local, clocks, Remaining, RenewedInTime,
        Waiting, Critical, BeforeRun, Saving
  <1> QED
    BY <1>1, NoTimeTaken

(* Install moves no message.                                               *)
LEMMA InstallRenewal ==
  ASSUME TypeOK, TypeOK', RenewedInTime, NEW c \in Creation, Install(c)
  PROVE  RenewedInTime'
  <1>1. TakesNoTime
    BY RenewalTypes, DisjointRequests, TimesAreNatural
    DEF TakesNoTime, Install, Goto, Finish, redis, local, clocks, Remaining, RenewedInTime,
        Waiting, Critical, BeforeRun, Saving
  <1> QED
    BY <1>1, NoTimeTaken

(* InstallFails moves no message.                                          *)
LEMMA InstallFailsRenewal ==
  ASSUME TypeOK, TypeOK', RenewedInTime, NEW c \in Creation, InstallFails(c)
  PROVE  RenewedInTime'
  <1>1. TakesNoTime
    BY RenewalTypes, DisjointRequests, TimesAreNatural
    DEF TakesNoTime, InstallFails, Goto, Finish, redis, local, clocks, Remaining, RenewedInTime,
        Waiting, Critical, BeforeRun, Saving
  <1> QED
    BY <1>1, NoTimeTaken

(* Crash moves messages out only.                                          *)
LEMMA CrashRenewal ==
  ASSUME TypeOK, TypeOK', RenewedInTime, NEW p \in Replica, Crash(p)
  PROVE  RenewedInTime'
  <1>1. TakesNoTime
    BY RenewalTypes, DisjointRequests, TimesAreNatural
    DEF TakesNoTime, Crash, Lost, redis, local, clocks, Remaining, RenewedInTime,
        Waiting, Critical, BeforeRun, Saving
  <1> QED
    BY <1>1, NoTimeTaken

(* Touch gives the session more time than its message needs.               *)
LEMMA TouchRenewal ==
  ASSUME SessionTtl > RequestTimeout + Slack,
         TypeOK, TypeOK', LockOutlivesHolder, RenewedInTime, NEW r \in Message, Touch(r)
  PROVE  RenewedInTime'
  <1>1. /\ r \in Requests /\ pc[r] = "touch" /\ pc' = [pc EXCEPT ![r] = "run"]
        /\ store' = store /\ target' = target /\ slack' = slack
        /\ timer' = [timer EXCEPT ![r] = RequestTimeout]
        /\ ttl' = [ttl EXCEPT ![target[r]] =
                     IF store[target[r]] = None THEN ttl[target[r]] ELSE SessionTtl]
    BY DEF Touch, Renew, Goto, local, Requests
  <1>2. target[r] \in Session /\ slack[r] <= Slack
    BY <1>1, RenewalTypes DEF RenewedInTime, Critical, BeforeRun
  <1>3. ASSUME NEW q \in Message \ {r}, pc[q] \in Critical
        PROVE  ttl'[target[q]] = ttl[target[q]] /\ Remaining(q)' = Remaining(q)
    <2>1. target[q] # target[r] /\ target[q] \in Session
      BY <1>1, <1>3, RenewalTypes DEF LockOutlivesHolder, Critical, BeforeRun
    <2>2. pc'[q] = pc[q] /\ timer'[q] = timer[q]
      BY <1>1, RenewalTypes
    <2> QED
      BY <1>1, <2>1, <2>2, RenewalTypes DEF Remaining
  <1>4. Remaining(r)' = slack[r] + RequestTimeout
    BY <1>1, RenewalTypes DEF Remaining, BeforeRun
  <1>5. store[target[r]] # None => ttl'[target[r]] > Remaining(r)'
    BY <1>1, <1>2, <1>4, RenewalTypes, TimesAreNatural
  <1> SUFFICES ASSUME NEW q \in Message
               PROVE  /\ pc'[q] \in Critical => slack[q] <= Slack
                      /\ pc'[q] \in {"run"} \cup Saving /\ store[target[q]] # None =>
                           ttl'[target[q]] > Remaining(q)'
    BY <1>1 DEF RenewedInTime
  <1>6. CASE q = r
    BY <1>1, <1>2, <1>5, <1>6, RenewalTypes
  <1>7. CASE q # r
    <2>1. pc'[q] = pc[q]
      BY <1>1, <1>7, RenewalTypes
    <2> QED
      BY <1>3, <1>7, <2>1 DEF RenewedInTime, Critical, Saving
  <1> QED
    BY <1>6, <1>7

(* A deletion leaves nothing of the session it removes.                    *)
LEMMA DelRenewal ==
  ASSUME TypeOK, TypeOK', RenewedInTime,
         NEW d \in Deletion, NEW done \in BOOLEAN, NEW heard \in BOOLEAN, Del(d, done, heard)
  PROVE  RenewedInTime'
  <1>1. /\ pc[d] = "del" /\ d \in Requests /\ target[d] \in Session
        /\ target' = target /\ slack' = slack /\ timer' = timer
        /\ \A q \in Message : pc'[q] = pc[q]
        /\ \A s \in Session : store'[s] = None \/ (store'[s] = store[s] /\ ttl'[s] = ttl[s])
    BY KeyTypes, DisjointRequests DEF Del, Finish, Goto, local, clocks
  <1>2. \A q \in Message : Remaining(q)' = Remaining(q)
    BY <1>1 DEF Remaining
  <1> QED
    BY <1>1, <1>2, RenewalTypes DEF RenewedInTime, Critical

(* SaveSet concerns the sessions of nobody else inside a lock.             *)
LEMMA SaveSetRenewal ==
  ASSUME TypeOK, TypeOK', LockOutlivesHolder, RenewedInTime,
         NEW r \in Message, NEW heard \in BOOLEAN, SaveSet(r, heard)
  PROVE  RenewedInTime'
  <1>1. /\ r \in Requests /\ pc[r] = "saveSet" /\ pc' = [pc EXCEPT ![r] = "release"]
        /\ target' = target /\ slack' = slack /\ timer' = timer
        /\ store' = [store EXCEPT ![target[r]] = data[r]]
        /\ ttl' = [ttl EXCEPT ![target[r]] = SessionTtl]
    BY DEF SaveSet, Write, Unwind, Goto, local, clocks, Requests
  <1> SUFFICES ASSUME NEW q \in Message, pc'[q] \in Critical
               PROVE  /\ slack'[q] <= Slack
                      /\ pc'[q] \in {"run"} \cup Saving /\ store'[target'[q]] # None =>
                           ttl'[target'[q]] > Remaining(q)'
    BY DEF RenewedInTime, Critical, Saving
  <1>2. q # r /\ pc'[q] = pc[q]
    BY <1>1, RenewalTypes DEF Critical, BeforeRun, Saving
  <1>3. target[q] # target[r] /\ target[q] \in Session
    BY <1>1, <1>2, RenewalTypes DEF LockOutlivesHolder, Critical, Saving
  <1>4. store'[target[q]] = store[target[q]] /\ ttl'[target[q]] = ttl[target[q]]
    BY <1>1, <1>3, RenewalTypes
  <1>5. Remaining(q)' = Remaining(q)
    BY <1>1, <1>2 DEF Remaining
  <1> QED
    BY <1>1, <1>2, <1>4, <1>5 DEF RenewedInTime

(* A session is created before anybody can send it a message.              *)
LEMMA CreateStoreRenewal ==
  ASSUME TypeOK, TypeOK', HistoryInv, RenewedInTime,
         NEW c \in Creation, NEW p \in Replica, NEW s \in Session, CreateStore(c, p, s)
  PROVE  RenewedInTime'
  <1>1. /\ c \in Requests /\ pc[c] = "idle" /\ pc' = [pc EXCEPT ![c] = "install"]
        /\ target' = [target EXCEPT ![c] = s] /\ slack' = slack /\ timer' = timer
        /\ store' = [store EXCEPT ![s] = Blank]
        /\ ttl' = [ttl EXCEPT ![s] = SessionTtl]
        /\ s \notin born /\ target \in [Requests -> Session \cup {None}]
    BY DEF CreateStore, Route, Goto, clocks, Requests, TypeOK, LocalType
  <1> SUFFICES ASSUME NEW q \in Message, pc'[q] \in Critical
               PROVE  /\ slack'[q] <= Slack
                      /\ pc'[q] \in {"run"} \cup Saving /\ store'[target'[q]] # None =>
                           ttl'[target'[q]] > Remaining(q)'
    BY DEF RenewedInTime, Critical, Saving
  <1>2. q # c /\ pc'[q] = pc[q] /\ pc[q] # "idle"
    BY <1>1, RenewalTypes, DisjointRequests DEF Critical, BeforeRun, Saving
  <1>3. target'[q] = target[q] /\ target[q] \in Session /\ target[q] # s
    BY <1>1, <1>2, RenewalTypes DEF HistoryInv, TargetsWereBorn
  <1>4. store'[target[q]] = store[target[q]] /\ ttl'[target[q]] = ttl[target[q]]
    BY <1>1, <1>3, RenewalTypes
  <1>5. Remaining(q)' = Remaining(q)
    BY <1>1, <1>2 DEF Remaining
  <1> QED
    BY <1>1, <1>2, <1>3, <1>4, <1>5 DEF RenewedInTime

(* A tick takes one from both sides, and only when both are positive.      *)
LEMMA TickRenewal ==
  ASSUME TypeOK, TypeOK', RenewedInTime, Tick
  PROVE  RenewedInTime'
  <1>1. target' = target /\ pc' = pc
    BY DEF Tick, local
  <1> SUFFICES ASSUME NEW q \in Message, pc[q] \in Critical
               PROVE  /\ slack'[q] <= Slack
                      /\ pc[q] \in {"run"} \cup Saving /\ store'[target[q]] # None =>
                           ttl'[target[q]] > Remaining(q)'
    BY <1>1 DEF RenewedInTime, Critical, Saving
  <1>2. slack[q] \in Nat /\ timer[q] \in Nat /\ slack[q] <= Slack
        /\ target[q] \in Session /\ ttl[target[q]] \in Nat
    BY RenewalTypes DEF RenewedInTime
  <1>3. slack'[q] <= Slack
    BY <1>2, TimesAreNatural DEF Tick, CountDown
  <1>4. ASSUME pc[q] \in {"run"} \cup Saving, store[target[q]] # None
        PROVE  store'[target[q]] = store[target[q]] /\ ttl'[target[q]] > Remaining(q)'
    <2>1. ttl[target[q]] > Remaining(q)
      BY <1>4 DEF RenewedInTime
    <2>2. Remaining(q)' = Remaining(q) - 1 /\ Remaining(q) \in Nat \ {0}
      <3>1. CASE pc[q] = "run"
        BY <1>1, <1>2, <3>1 DEF Tick, Remaining, CountDown, Waiting, Critical, BeforeRun, Saving
      <3>2. CASE pc[q] # "run"
        BY <1>1, <1>2, <1>4, <3>2
        DEF Tick, Remaining, CountDown, Waiting, Critical, BeforeRun, Saving
      <3> QED
        BY <3>1, <3>2
    <2> QED
      BY <1>2, <2>1, <2>2 DEF Tick, CountDown
  <1>5. store[target[q]] = None => store'[target[q]] = None
    BY <1>2 DEF Tick
  <1> QED
    BY <1>3, <1>4, <1>5

(* No step breaks the invariant, if sessions outlive a request.            *)
LEMMA RenewalStep ==
  ASSUME SessionTtl > RequestTimeout + Slack,
         TypeOK, TypeOK', LockOutlivesHolder, HistoryInv, RenewedInTime, [Next]_vars
  PROVE  RenewedInTime'
  <1>1. CASE UNCHANGED vars
    BY <1>1 DEF RenewedInTime, Remaining, vars, redis, local, clocks
  <1>2. ASSUME NEW r \in Message, MessageStep(r)
        PROVE  RenewedInTime'
    BY <1>2, ArriveRenewal, AcquireRenewal, RereadRenewal, AttachRenewal, TouchRenewal,
       RunDoneRenewal, RunTimeoutRenewal, RunFailsRenewal, SaveGetRenewal,
       SaveSetRenewal, ReleaseRenewal, FailRenewal
    DEF MessageStep
  <1>3. ASSUME NEW d \in Deletion, DeletionStep(d)
        PROVE  RenewedInTime'
    BY <1>3, DelLookupRenewal, PopRenewal, DelRenewal, CloseRenewal DEF DeletionStep
  <1>4. ASSUME NEW c \in Creation, CreationStep(c)
        PROVE  RenewedInTime'
    BY <1>4, CreateStoreRenewal, InstallRenewal, InstallFailsRenewal DEF CreationStep
  <1> QED
    BY <1>1, <1>2, <1>3, <1>4, TickRenewal, CrashRenewal DEF Next

(* The invariant holds of every reachable state, also with deletions.      *)
THEOREM RenewalHolds ==
  ASSUME SessionTtl > RequestTimeout + Slack
  PROVE  Spec => []RenewedInTime
  <1>1. Init => RenewedInTime
    BY DEF Init, RenewedInTime, Critical, BeforeRun, Saving, Requests
  <1>2. TypeOK /\ TypeOK' /\ LockOutlivesHolder /\ HistoryInv /\ RenewedInTime /\ [Next]_vars
          => RenewedInTime'
    BY RenewalStep
  <1> QED
    BY <1>1, <1>2, TypeCorrect, LockAlwaysOutlives, HistoryHolds, PTL DEF Spec

(* A tick takes no session away from a message between its touch and its   *)
(* save: the message is waiting, so it has something left, and the session *)
(* has more.                                                               *)
LEMMA TickSpares ==
  ASSUME TypeOK, RenewedInTime, Tick,
         NEW r \in Message, pc[r] \in {"run"} \cup Saving, store[target[r]] # None
  PROVE  store'[target[r]] # None
  <1>1. target[r] \in Session /\ ttl[target[r]] > Remaining(r)
    BY RenewalTypes DEF RenewedInTime, Critical
  <1>2. Remaining(r) >= 1
    <2>1. slack[r] \in Nat /\ timer[r] \in Nat
      BY RenewalTypes
    <2>2. CASE pc[r] = "run"
      BY <2>1, <2>2 DEF Tick, Remaining, BeforeRun
    <2>3. CASE pc[r] # "run"
      BY <2>1, <2>3 DEF Tick, Remaining, Waiting, Critical, BeforeRun, Saving
    <2> QED
      BY <2>2, <2>3
  <1>3. ttl[target[r]] # 1
    BY <1>1, <1>2, RenewalTypes, RemainingType
  <1> QED
    BY <1>1, <1>3 DEF Tick

(* A step that moves no request writes no key, or is a tick.               *)
LEMMA OnlyTimePasses ==
  ASSUME TypeOK, [Next]_vars, UNCHANGED pc
  PROVE  UNCHANGED store \/ Tick
  <1>1. ASSUME NEW r \in Message, NEW heard \in BOOLEAN, SaveSet(r, heard)
        PROVE  FALSE
    BY <1>1, KeyTypes DEF SaveSet, Unwind, Goto
  <1>2. ASSUME NEW d \in Deletion, NEW done \in BOOLEAN, NEW heard \in BOOLEAN,
               Del(d, done, heard)
        PROVE  FALSE
    BY <1>2, KeyTypes DEF Del, Finish, Goto
  <1>3. ASSUME NEW c \in Creation, NEW p \in Replica, NEW s \in Session, CreateStore(c, p, s)
        PROVE  FALSE
    BY <1>3, KeyTypes DEF CreateStore, Route, Goto
  <1> QED
    BY <1>1, <1>2, <1>3, RedisWriters DEF redis, Acquire, Touch, Release

(* The TTL renewed before a run outlasts the run and the save after it.    *)
THEOREM RunsOutliveNoSession ==
  ASSUME SessionTtl > RequestTimeout + Slack
  PROVE  Spec => NoExpiryDuringRun
  <1>1. TypeOK /\ RenewedInTime /\ [Next]_vars =>
          [\A r \in Message :
             UNCHANGED pc /\ pc[r] \in {"run"} \cup Saving /\ store[target[r]] # None
               => store'[target[r]] # None]_vars
    BY OnlyTimePasses, TickSpares
  <1> QED
    BY <1>1, TypeCorrect, RenewalHolds, PTL DEF Spec, NoExpiryDuringRun

(* The empty record is a record, and not an absent one.                    *)
LEMMA BlankIsSomething == Blank # None /\ Blank.hist = << >>
  <1>1. Blank \in Record
    BY DEF Blank, Record
  <1>2. None \notin Record
    BY NoneIsNothing
  <1>3. Blank # None
    BY <1>1, <1>2
  <1> QED
    BY <1>3 DEF Blank

-----------------------------------------------------------------------------
(* Where a step moves the request that takes it; no other request moves.   *)
MovesOnly(r) ==
  /\ \A q \in Message \ {r} : pc'[q] = pc[q] /\ target'[q] = target[q]
  /\ r \in Message /\ pc'[r] = "saveSet" =>
       pc[r] = "saveGet" /\ store[target[r]] # None /\ UNCHANGED <<store, target>>

(* Of the steps of a message only SaveGet leads to the save.               *)
LEMMA MessageMovesOnly ==
  ASSUME TypeOK, NEW r \in Message, MessageStep(r)
  PROVE  MovesOnly(r)
  <1>1. pc \in [Requests -> PcValues] /\ r \in Requests /\ (\A q \in Message : q \in Requests)
        /\ target \in [Requests -> Session \cup {None}]
    BY DEF TypeOK, ControlType, LocalType, Requests
  <1>2. ASSUME NEW p \in Replica, NEW s \in Session, Arrive(r, p, s)
        PROVE  MovesOnly(r)
    BY <1>1, <1>2 DEF Arrive, Route, Finish, Goto, MovesOnly
  <1>3. ASSUME NEW heard \in BOOLEAN, Acquire(r, heard)
        PROVE  MovesOnly(r)
    BY <1>1, <1>3 DEF Acquire, Finish, Goto, local, MovesOnly
  <1>4. ASSUME Reread(r) \/ Attach(r) \/ Touch(r) \/ RunDone(r)
        PROVE  MovesOnly(r)
    BY <1>1, <1>4 DEF Reread, Attach, Touch, RunDone, Unwind, Goto, local, MovesOnly
  <1>5. ASSUME RunTimeout(r) \/ RunFails(r)
        PROVE  MovesOnly(r)
    BY <1>1, <1>5 DEF RunTimeout, RunFails, Unwind, Goto, local, MovesOnly
  <1>6. ASSUME SaveGet(r)
        PROVE  MovesOnly(r)
    BY <1>1, <1>6 DEF SaveGet, Unwind, Goto, local, redis, MovesOnly
  <1>7. ASSUME NEW heard \in BOOLEAN, SaveSet(r, heard)
        PROVE  MovesOnly(r)
    BY <1>1, <1>7 DEF SaveSet, Unwind, Goto, local, MovesOnly
  <1>8. ASSUME NEW done \in BOOLEAN, NEW heard \in BOOLEAN, Release(r, done, heard)
        PROVE  MovesOnly(r)
    BY <1>1, <1>8 DEF Release, Finish, Goto, local, MovesOnly
  <1>9. ASSUME Fail(r)
        PROVE  MovesOnly(r)
    BY <1>1, <1>9 DEF Fail, Unwind, Finish, Goto, local, MovesOnly
  <1> QED
    BY <1>2, <1>3, <1>4, <1>5, <1>6, <1>7, <1>8, <1>9 DEF MessageStep

(* A message gets to its save by finding its session there.                *)
LEMMA FoundBeforeSave ==
  ASSUME TypeOK, [Next]_vars, NEW q \in Message, pc'[q] = "saveSet"
  PROVE  /\ target'[q] = target[q]
         /\ pc[q] = "saveSet" \/ (store[target[q]] # None /\ UNCHANGED store)
  <1>0. /\ pc \in [Requests -> PcValues] /\ q \in Requests
        /\ target \in [Requests -> Session \cup {None}]
        /\ q \notin Deletion /\ q \notin Creation
    BY DisjointRequests DEF TypeOK, ControlType, LocalType, Requests
  <1>1. CASE UNCHANGED vars
    BY <1>1 DEF vars, local
  <1>2. ASSUME NEW r \in Message, MessageStep(r)
        PROVE  /\ target'[q] = target[q]
               /\ pc[q] = "saveSet" \/ (store[target[q]] # None /\ UNCHANGED store)
    BY <1>2, MessageMovesOnly DEF MovesOnly
  <1>3. ASSUME NEW d \in Deletion, DeletionStep(d)
        PROVE  target'[q] = target[q] /\ pc[q] = "saveSet"
    <2>1. (target' = target \/ \E s : target' = [target EXCEPT ![d] = s])
          /\ \E l : pc' = [pc EXCEPT ![d] = l]
      BY <1>3 DEF DeletionStep, DelLookup, Pop, Del, Close, Route, Finish, Goto, local
    <2> QED
      BY <1>0, <2>1
  <1>4. ASSUME NEW c \in Creation, CreationStep(c)
        PROVE  target'[q] = target[q] /\ pc[q] = "saveSet"
    <2>1. (target' = target \/ \E s : target' = [target EXCEPT ![c] = s])
          /\ \E l : pc' = [pc EXCEPT ![c] = l]
      BY <1>4 DEF CreationStep, CreateStore, Install, InstallFails, Route, Finish, Goto, local
    <2> QED
      BY <1>0, <2>1
  <1>5. ASSUME Tick \/ \E p \in Replica : Crash(p)
        PROVE  target'[q] = target[q] /\ pc[q] = "saveSet"
    BY <1>0, <1>5 DEF Tick, Crash, Lost, local
  <1> QED
    BY <1>1, <1>2, <1>3, <1>4, <1>5 DEF Next

(* Where nobody deletes, what a message found it saves over.               *)
LEMMA SavesOverStep ==
  ASSUME Deletion = {}, TypeOK, RenewedInTime, SavesOverRecord, [Next]_vars
  PROVE  SavesOverRecord'
  <1> SUFFICES ASSUME NEW q \in Message, pc'[q] = "saveSet"
               PROVE  store'[target[q]] # None
    BY FoundBeforeSave DEF SavesOverRecord
  <1>1. CASE pc[q] # "saveSet"
    BY <1>1, FoundBeforeSave
  <1>2. CASE pc[q] = "saveSet"
    <2>1. store[target[q]] # None /\ target[q] \in Session
      BY <1>2, RenewalTypes DEF SavesOverRecord, Critical, Saving
    <2>2. CASE UNCHANGED store
      BY <2>1, <2>2
    <2>3. ASSUME NEW r \in Message, NEW heard \in BOOLEAN, SaveSet(r, heard)
          PROVE  store'[target[q]] # None
      <3>1. pc[r] = "saveSet" /\ store' = [store EXCEPT ![target[r]] = data[r]]
        BY <2>3 DEF SaveSet, Write
      <3>2. data[r] # None
        BY <3>1, NoneIsNothing DEF TypeOK, BoundWhenUsed, Critical, Saving
      <3> QED
        BY <2>1, <3>1, <3>2, RenewalTypes
    <2>4. ASSUME NEW c \in Creation, NEW p \in Replica, NEW s \in Session, CreateStore(c, p, s)
          PROVE  store'[target[q]] # None
      BY <2>1, <2>4, RenewalTypes, BlankIsSomething DEF CreateStore
    <2>5. CASE Tick
      BY <1>2, <2>1, <2>5, TickSpares DEF Saving
    <2> QED
      BY <2>2, <2>3, <2>4, <2>5, RedisWriters DEF redis, Acquire, Touch, Release
  <1> QED
    BY <1>1, <1>2

(* A message that has not been saved extends the conversation it saves to. *)
LEMMA SaveExtends ==
  ASSUME TypeOK, HistoryInv, SavesOverRecord,
         NEW r \in Message, NEW heard \in BOOLEAN, SaveSet(r, heard)
  PROVE  Promise!Extend(target[r], r) /\ target[r] \in Session
  <1>1. /\ pc[r] = "saveSet" /\ born' = born
        /\ store' = [store EXCEPT ![target[r]] = data[r]]
        /\ store \in [Session -> Record \cup {None}]
        /\ target[r] \in Session /\ data[r] \in Record
        /\ store[target[r]] # None /\ store[target[r]] \in Record
    BY RenewalTypes
    DEF SaveSet, Write, ghost, SavesOverRecord, TypeOK, RedisType, BoundWhenUsed, Critical, Saving
  <1>2. data[r].hist = Append(store[target[r]].hist, r)
    BY <1>1 DEF HistoryInv, ReadIsStored, Saving
  <1>3. ~Holds(store[target[r]].hist, r)
    BY <1>1 DEF HistoryInv, StoredAreSaved, Saved
  <1>4. /\ store[target[r]].hist \in Seq(Message)
        /\ store[target[r]].hist # None /\ data[r] # None
    BY <1>1, NoneIsNothing DEF Record
  <1>5. \A i \in 1 .. Len(store[target[r]].hist) : store[target[r]].hist[i] # r
    BY <1>3, <1>4 DEF Holds
  <1>6. [s \in Session |-> IF store'[s] = None THEN None ELSE store'[s].hist]
          = [[s \in Session |-> IF store[s] = None THEN None ELSE store[s].hist]
               EXCEPT ![target[r]] = Append(store[target[r]].hist, r)]
    BY <1>1, <1>2, <1>4
  <1> QED
    BY <1>1, <1>4, <1>5, <1>6 DEF Promise!Extend

(* Every step opens, extends or drops conversations, or does nothing to    *)
(* them.                                                                   *)
LEMMA StepImplements ==
  ASSUME Deletion = {}, TypeOK, HistoryInv, SavesOverRecord, [Next]_vars
  PROVE  [Promise!Next]_<<[s \in Session |-> IF store[s] = None THEN None ELSE store[s].hist],
                          born>>
  <1> DEFINE conv == [s \in Session |-> IF store[s] = None THEN None ELSE store[s].hist]
  <1>1. CASE store' = store /\ born' = born
    BY <1>1
  <1>2. ASSUME NEW r \in Message, MessageStep(r)
        PROVE  (store' = store /\ born' = born) \/ \E heard \in BOOLEAN : SaveSet(r, heard)
    BY <1>2
    DEF MessageStep, Arrive, Acquire, Reread, Attach, Touch, RunDone, RunTimeout,
        RunFails, SaveGet, Release, Fail, redis, ghost
  <1>3. ASSUME NEW r \in Message, NEW heard \in BOOLEAN, SaveSet(r, heard)
        PROVE  Promise!Next
    BY <1>3, SaveExtends DEF Promise!Next
  <1>4. ASSUME NEW c \in Creation, NEW p \in Replica, NEW s \in Session, CreateStore(c, p, s)
        PROVE  Promise!Next
    <2>1. /\ s \notin born /\ born' = born \cup {s}
          /\ store' = [store EXCEPT ![s] = Blank]
          /\ store \in [Session -> Record \cup {None}]
      BY <1>4, RenewalTypes DEF CreateStore
    <2>2. Blank # None /\ Blank.hist = << >>
      BY BlankIsSomething
    <2>3. [s_1 \in Session |-> IF store'[s_1] = None THEN None ELSE store'[s_1].hist]
            = [conv EXCEPT ![s] = << >>]
      BY <2>1, <2>2
    <2>4. Promise!Open(s)
      BY <2>1, <2>3 DEF Promise!Open
    <2> QED
      BY <2>4 DEF Promise!Next
  <1>5. ASSUME NEW c \in Creation, CreationStep(c)
        PROVE  \/ store' = store /\ born' = born
               \/ \E p \in Replica, s \in Session : CreateStore(c, p, s)
    BY <1>5 DEF CreationStep, Install, InstallFails, redis, ghost
  <1>6. CASE Tick
    <2>1. store' = [s \in Session |-> IF ttl[s] = 1 THEN None ELSE store[s]] /\ born' = born
      BY <1>6 DEF Tick, ghost
    <2>2. PICK expired \in SUBSET Session : expired = {s \in Session : ttl[s] = 1}
      OBVIOUS
    <2>3. [s \in Session |-> IF store'[s] = None THEN None ELSE store'[s].hist]
            = [s \in Session |-> IF s \in expired THEN None ELSE conv[s]]
      BY <2>1, <2>2
    <2>4. Promise!Drop(expired)
      BY <2>1, <2>3 DEF Promise!Drop
    <2> QED
      BY <2>4 DEF Promise!Next
  <1>7. ASSUME NEW p \in Replica, Crash(p)
        PROVE  store' = store /\ born' = born
    BY <1>7 DEF Crash, redis
  <1>8. CASE UNCHANGED vars
    BY <1>8 DEF vars, redis, ghost
  <1> QED
    BY <1>1, <1>2, <1>3, <1>4, <1>5, <1>6, <1>7, <1>8 DEF Next

(* The service implements Conversation.                                    *)
THEOREM ServiceImplementsConversation ==
  ASSUME SessionTtl > RequestTimeout + Slack, Deletion = {}
  PROVE  Spec => ImplementsConversation
  <1>1. Spec => []RenewedInTime
    BY RenewalHolds
  <1>2. Init => SavesOverRecord
    BY DEF Init, SavesOverRecord, Requests
  <1>3. TypeOK /\ RenewedInTime /\ SavesOverRecord /\ [Next]_vars => SavesOverRecord'
    BY SavesOverStep
  <1>4. Spec => []SavesOverRecord
    BY <1>1, <1>2, <1>3, TypeCorrect, PTL DEF Spec
  <1>5. Init => Promise!Init
    BY BlankIsSomething DEF Init, Promise!Init
  <1>6. TypeOK /\ HistoryInv /\ SavesOverRecord /\ [Next]_vars
          => [Promise!Next]_<<[s \in Session |-> IF store[s] = None THEN None ELSE store[s].hist],
                              born>>
    BY StepImplements
  <1> QED
    BY <1>4, <1>5, <1>6, TypeCorrect, HistoryHolds, PTL
    DEF Spec, ImplementsConversation, Promise!Spec

=============================================================================
