----------------------------- MODULE LockProofs -----------------------------
(***************************************************************************)
(* The lock of a session is held by the one message inside send_message or *)
(* stream_message for the whole stretch between acquire and release, for   *)
(* every timeout, as long as Redis delays a holder for less than the       *)
(* margin.  The invariant says why: the lock's TTL exceeds what the holder *)
(* may still need.  Whatever the delay, a lock is taken when it is free,   *)
(* dropped by its owner or lost to its TTL; and no key is without a TTL.   *)
(***************************************************************************)
EXTENDS SessionProofs

(* What a coroutine has still to wait for is a number.                     *)
LEMMA RemainingType ==
  ASSUME TypeOK, NEW r \in Message
  PROVE  Remaining(r) \in Nat
  BY TimesAreNatural DEF TypeOK, LocalType, Remaining

(* A step that leaves the locks alone, and lets nobody into the stretch or *)
(* lengthens what is left of it, keeps the invariant.                      *)
LEMMA LocksUntouched ==
  ASSUME LockOutlivesHolder, UNCHANGED <<lock, lockTtl>>, TypeOK, TypeOK',
         \A q \in Message : pc'[q] \in Critical =>
           /\ pc[q] \in Critical /\ target'[q] = target[q]
           /\ Remaining(q)' <= Remaining(q)
  PROVE  LockOutlivesHolder'
  <1> SUFFICES ASSUME NEW q \in Message, pc'[q] \in Critical
               PROVE  lock'[target'[q]] = q /\ lockTtl'[target'[q]] > Remaining(q)'
    BY DEF LockOutlivesHolder
  <1>1. lock[target[q]] = q /\ lockTtl[target[q]] > Remaining(q) /\ target[q] \in Session
    BY DEF LockOutlivesHolder, TypeOK, BoundWhenUsed, Critical, BeforeRun, Saving, Requests
  <1>2. lockTtl[target[q]] \in Nat /\ Remaining(q) \in Nat
    BY <1>1, RemainingType DEF TypeOK, RedisType
  <1>3. Remaining(q)' \in Nat
    BY TimesAreNatural DEF TypeOK, LocalType, Remaining
  <1> QED
    BY <1>1, <1>2, <1>3

(* Arrive gives its message no more to do inside the lock.                 *)
LEMMA ArriveLock ==
  ASSUME TypeOK, LockOutlivesHolder, NEW r \in Message, NEW p \in Replica, NEW s \in Session, Arrive(r, p, s)
  PROVE  LockOutlivesHolder'
  <1>1. pc \in [Requests -> PcValues] /\ target \in [Requests -> Session \cup {None}]
    BY DEF TypeOK, ControlType, LocalType
  <1>2. slack \in [Message -> Nat] /\ timer \in [Message -> Nat]
    BY DEF TypeOK, LocalType
  <1>3. ASSUME NEW q \in Message, pc'[q] \in Critical
        PROVE  /\ pc[q] \in Critical /\ target'[q] = target[q]
               /\ Remaining(q)' <= Remaining(q)
    BY <1>1, <1>2, <1>3, TimesAreNatural
    DEF Arrive, Route, Finish, Goto, Remaining, local, clocks, redis, Requests, Critical, BeforeRun, Saving
  <1> QED
    BY <1>3, ArriveType, LocksUntouched DEF Arrive, redis

(* Acquire enters only through a free lock, with a TTL that covers all the *)
(* holder can need.                                                        *)
LEMMA AcquireLock ==
  ASSUME TypeOK, LockOutlivesHolder, NEW r \in Message, NEW heard \in BOOLEAN,
         Acquire(r, heard)
  PROVE  LockOutlivesHolder'
  <1>1. /\ pc \in [Requests -> PcValues] /\ r \in Requests
        /\ slack \in [Message -> Nat] /\ timer \in [Message -> Nat]
        /\ lock \in [Session -> Message \cup {None}]
        /\ lockTtl \in [Session -> Nat]
    BY DEF TypeOK, ControlType, LocalType, RedisType, Requests
  <1>2. target[r] \in Session /\ pc[r] = "acquire"
    BY DEF Acquire, TypeOK, BoundWhenUsed, Requests
  <1>3. target' = target /\ timer' = timer
    BY DEF Acquire, local
  <1>4. CASE ~LockFree(target[r])
    <2>1. \A q \in Message : pc'[q] \in Critical =>
            pc[q] \in Critical /\ Remaining(q)' = Remaining(q)
      BY <1>1, <1>2, <1>3, <1>4
      DEF Acquire, Finish, Goto, Remaining, Requests, Critical, BeforeRun, Saving
    <2>2. \A q \in Message : Remaining(q) \in Nat
      BY RemainingType
    <2> QED
      BY <2>1, <2>2, <1>3, <1>4, AcquireType, LocksUntouched DEF Acquire
  <1>5. CASE LockFree(target[r])
    <2>1. /\ lock' = [lock EXCEPT ![target[r]] = r]
          /\ lockTtl' = [lockTtl EXCEPT ![target[r]] = RequestTimeout + LockMargin]
          /\ slack' = [slack EXCEPT ![r] = Slack]
      BY <1>5 DEF Acquire, TakeLock, LockTimeout
    <2> SUFFICES ASSUME NEW q \in Message, pc'[q] \in Critical
                 PROVE  /\ lock'[target'[q]] = q
                        /\ lockTtl'[target'[q]] > Remaining(q)'
      BY DEF LockOutlivesHolder
    <2>2. CASE q = r
      <3>1. pc'[r] \in {"reread", "done"}
        BY <1>1, <1>5 DEF Acquire, Finish, Goto
      <3>2. Remaining(r)' = Slack + RequestTimeout
        BY <1>1, <2>1, <2>2, <3>1 DEF Remaining, Critical, BeforeRun, Saving
      <3> QED
        BY <1>1, <1>2, <1>3, <2>1, <2>2, <3>2, SlackWithinMargin, TimesAreNatural
    <2>3. CASE q # r
      <3>1. pc'[q] = pc[q] /\ slack'[q] = slack[q]
        BY <1>1, <2>1, <2>3, <1>5 DEF Acquire, Finish, Goto, Requests
      <3>2. lock[target[q]] = q /\ lockTtl[target[q]] > Remaining(q)
        BY <3>1 DEF LockOutlivesHolder
      <3>3. target[q] # target[r]
        BY <3>2, <1>5, NoneIsNothing DEF LockFree, Requests
      <3>4. Remaining(q)' = Remaining(q)
        BY <3>1, <1>3 DEF Remaining
      <3> QED
        BY <3>2, <3>3, <3>4, <2>1, <1>1, <1>2, <1>3
           DEF TypeOK, BoundWhenUsed
    <2> QED
      BY <2>2, <2>3
  <1> QED
    BY <1>4, <1>5

(* Reread gives its message no more to do inside the lock.                 *)
LEMMA RereadLock ==
  ASSUME TypeOK, LockOutlivesHolder, NEW r \in Message, Reread(r)
  PROVE  LockOutlivesHolder'
  <1>1. pc \in [Requests -> PcValues] /\ target \in [Requests -> Session \cup {None}]
    BY DEF TypeOK, ControlType, LocalType
  <1>2. slack \in [Message -> Nat] /\ timer \in [Message -> Nat]
    BY DEF TypeOK, LocalType
  <1>3. ASSUME NEW q \in Message, pc'[q] \in Critical
        PROVE  /\ pc[q] \in Critical /\ target'[q] = target[q]
               /\ Remaining(q)' <= Remaining(q)
    BY <1>1, <1>2, <1>3, TimesAreNatural
    DEF Reread, Unwind, Goto, Remaining, local, clocks, redis, Requests, Critical, BeforeRun, Saving
  <1> QED
    BY <1>3, RereadType, LocksUntouched DEF Reread, redis

(* Attach gives its message no more to do inside the lock.                 *)
LEMMA AttachLock ==
  ASSUME TypeOK, LockOutlivesHolder, NEW r \in Message, Attach(r)
  PROVE  LockOutlivesHolder'
  <1>1. pc \in [Requests -> PcValues] /\ target \in [Requests -> Session \cup {None}]
    BY DEF TypeOK, ControlType, LocalType
  <1>2. slack \in [Message -> Nat] /\ timer \in [Message -> Nat]
    BY DEF TypeOK, LocalType
  <1>3. ASSUME NEW q \in Message, pc'[q] \in Critical
        PROVE  /\ pc[q] \in Critical /\ target'[q] = target[q]
               /\ Remaining(q)' <= Remaining(q)
    BY <1>1, <1>2, <1>3, TimesAreNatural
    DEF Attach, Goto, Remaining, local, clocks, redis, Requests, Critical, BeforeRun, Saving
  <1> QED
    BY <1>3, AttachType, LocksUntouched DEF Attach, redis

(* Touch gives its message no more to do inside the lock.                  *)
LEMMA TouchLock ==
  ASSUME TypeOK, LockOutlivesHolder, NEW r \in Message, Touch(r)
  PROVE  LockOutlivesHolder'
  <1>1. pc \in [Requests -> PcValues] /\ target \in [Requests -> Session \cup {None}]
    BY DEF TypeOK, ControlType, LocalType
  <1>2. slack \in [Message -> Nat] /\ timer \in [Message -> Nat]
    BY DEF TypeOK, LocalType
  <1>3. ASSUME NEW q \in Message, pc'[q] \in Critical
        PROVE  /\ pc[q] \in Critical /\ target'[q] = target[q]
               /\ Remaining(q)' <= Remaining(q)
    BY <1>1, <1>2, <1>3, TimesAreNatural
    DEF Touch, Goto, Remaining, local, clocks, redis, Requests, Critical, BeforeRun, Saving
  <1> QED
    BY <1>3, TouchType, LocksUntouched DEF Touch, redis

(* RunDone gives its message no more to do inside the lock.                *)
LEMMA RunDoneLock ==
  ASSUME TypeOK, LockOutlivesHolder, NEW r \in Message, RunDone(r)
  PROVE  LockOutlivesHolder'
  <1>1. pc \in [Requests -> PcValues] /\ target \in [Requests -> Session \cup {None}]
    BY DEF TypeOK, ControlType, LocalType
  <1>2. slack \in [Message -> Nat] /\ timer \in [Message -> Nat]
    BY DEF TypeOK, LocalType
  <1>3. ASSUME NEW q \in Message, pc'[q] \in Critical
        PROVE  /\ pc[q] \in Critical /\ target'[q] = target[q]
               /\ Remaining(q)' <= Remaining(q)
    BY <1>1, <1>2, <1>3, TimesAreNatural
    DEF RunDone, Goto, Remaining, local, clocks, redis, Requests, Critical, BeforeRun, Saving
  <1> QED
    BY <1>3, RunDoneType, LocksUntouched DEF RunDone, redis

(* RunTimeout gives its message no more to do inside the lock.             *)
LEMMA RunTimeoutLock ==
  ASSUME TypeOK, LockOutlivesHolder, NEW r \in Message, RunTimeout(r)
  PROVE  LockOutlivesHolder'
  <1>1. pc \in [Requests -> PcValues] /\ target \in [Requests -> Session \cup {None}]
    BY DEF TypeOK, ControlType, LocalType
  <1>2. slack \in [Message -> Nat] /\ timer \in [Message -> Nat]
    BY DEF TypeOK, LocalType
  <1>3. ASSUME NEW q \in Message, pc'[q] \in Critical
        PROVE  /\ pc[q] \in Critical /\ target'[q] = target[q]
               /\ Remaining(q)' <= Remaining(q)
    BY <1>1, <1>2, <1>3, TimesAreNatural
    DEF RunTimeout, Unwind, Goto, Remaining, local, clocks, redis, Requests, Critical, BeforeRun, Saving
  <1> QED
    BY <1>3, RunTimeoutType, LocksUntouched DEF RunTimeout, redis

(* RunFails gives its message no more to do inside the lock.               *)
LEMMA RunFailsLock ==
  ASSUME TypeOK, LockOutlivesHolder, NEW r \in Message, RunFails(r)
  PROVE  LockOutlivesHolder'
  <1>1. pc \in [Requests -> PcValues] /\ target \in [Requests -> Session \cup {None}]
    BY DEF TypeOK, ControlType, LocalType
  <1>2. slack \in [Message -> Nat] /\ timer \in [Message -> Nat]
    BY DEF TypeOK, LocalType
  <1>3. ASSUME NEW q \in Message, pc'[q] \in Critical
        PROVE  /\ pc[q] \in Critical /\ target'[q] = target[q]
               /\ Remaining(q)' <= Remaining(q)
    BY <1>1, <1>2, <1>3, TimesAreNatural
    DEF RunFails, Unwind, Goto, Remaining, local, clocks, redis, Requests, Critical, BeforeRun, Saving
  <1> QED
    BY <1>3, RunFailsType, LocksUntouched DEF RunFails, redis

(* SaveGet gives its message no more to do inside the lock.                *)
LEMMA SaveGetLock ==
  ASSUME TypeOK, LockOutlivesHolder, NEW r \in Message, SaveGet(r)
  PROVE  LockOutlivesHolder'
  <1>1. pc \in [Requests -> PcValues] /\ target \in [Requests -> Session \cup {None}]
    BY DEF TypeOK, ControlType, LocalType
  <1>2. slack \in [Message -> Nat] /\ timer \in [Message -> Nat]
    BY DEF TypeOK, LocalType
  <1>3. ASSUME NEW q \in Message, pc'[q] \in Critical
        PROVE  /\ pc[q] \in Critical /\ target'[q] = target[q]
               /\ Remaining(q)' <= Remaining(q)
    BY <1>1, <1>2, <1>3, TimesAreNatural
    DEF SaveGet, Unwind, Goto, Remaining, local, clocks, redis, Requests, Critical, BeforeRun, Saving
  <1> QED
    BY <1>3, SaveGetType, LocksUntouched DEF SaveGet, redis

(* SaveSet gives its message no more to do inside the lock.                *)
LEMMA SaveSetLock ==
  ASSUME TypeOK, LockOutlivesHolder, NEW r \in Message, NEW heard \in BOOLEAN, SaveSet(r, heard)
  PROVE  LockOutlivesHolder'
  <1>1. pc \in [Requests -> PcValues] /\ target \in [Requests -> Session \cup {None}]
    BY DEF TypeOK, ControlType, LocalType
  <1>2. slack \in [Message -> Nat] /\ timer \in [Message -> Nat]
    BY DEF TypeOK, LocalType
  <1>3. ASSUME NEW q \in Message, pc'[q] \in Critical
        PROVE  /\ pc[q] \in Critical /\ target'[q] = target[q]
               /\ Remaining(q)' <= Remaining(q)
    BY <1>1, <1>2, <1>3, TimesAreNatural
    DEF SaveSet, Unwind, Goto, Remaining, local, clocks, redis, Requests, Critical, BeforeRun, Saving
  <1> QED
    BY <1>3, SaveSetType, LocksUntouched DEF SaveSet, redis

(* Release frees the lock only if it is still its own, and then nobody     *)
(* else is inside.                                                         *)
LEMMA ReleaseLock ==
  ASSUME TypeOK, LockOutlivesHolder, NEW r \in Message, NEW done \in BOOLEAN,
         NEW heard \in BOOLEAN, Release(r, done, heard)
  PROVE  LockOutlivesHolder'
  <1>1. /\ pc \in [Requests -> PcValues] /\ r \in Requests
        /\ lock \in [Session -> Message \cup {None}]
        /\ lockTtl \in [Session -> Nat]
    BY DEF TypeOK, ControlType, RedisType, Requests
  <1>2. target' = target /\ timer' = timer /\ slack' = slack
    BY DEF Release, local, clocks
  <1> SUFFICES ASSUME NEW q \in Message, pc'[q] \in Critical
               PROVE  /\ lock'[target'[q]] = q
                      /\ lockTtl'[target'[q]] > Remaining(q)'
    BY DEF LockOutlivesHolder
  <1>3. q # r /\ pc'[q] = pc[q]
    BY <1>1 DEF Release, Finish, Goto, Requests, Critical, BeforeRun, Saving
  <1>4. /\ lock[target[q]] = q /\ lockTtl[target[q]] > Remaining(q)
        /\ Remaining(q)' = Remaining(q)
    BY <1>2, <1>3 DEF LockOutlivesHolder, Remaining
  <1>5. lock'[target[q]] = lock[target[q]] /\ lockTtl'[target[q]] = lockTtl[target[q]]
    <2>1. CASE done /\ OwnsLock(r)
      <3>1. target[r] # target[q]
        BY <2>1, <1>3, <1>4 DEF OwnsLock
      <3>2. /\ lock' = [lock EXCEPT ![target[r]] = None]
            /\ lockTtl' = [lockTtl EXCEPT ![target[r]] = 0]
        BY <2>1 DEF Release, FreeLock
      <3>3. target[q] \in Session
        BY <1>2, <1>3 DEF TypeOK, BoundWhenUsed, Requests, Critical, BeforeRun, Saving
      <3> QED
        BY <3>1, <3>2, <3>3, <1>1
    <2>2. CASE ~(done /\ OwnsLock(r))
      BY <2>2 DEF Release, FreeLock
    <2> QED
      BY <2>1, <2>2
  <1> QED
    BY <1>2, <1>4, <1>5

(* Fail gives its message no more to do inside the lock.                   *)
LEMMA FailLock ==
  ASSUME TypeOK, LockOutlivesHolder, NEW r \in Message, Fail(r)
  PROVE  LockOutlivesHolder'
  <1>1. pc \in [Requests -> PcValues] /\ target \in [Requests -> Session \cup {None}]
    BY DEF TypeOK, ControlType, LocalType
  <1>2. slack \in [Message -> Nat] /\ timer \in [Message -> Nat]
    BY DEF TypeOK, LocalType
  <1>3. ASSUME NEW q \in Message, pc'[q] \in Critical
        PROVE  /\ pc[q] \in Critical /\ target'[q] = target[q]
               /\ Remaining(q)' <= Remaining(q)
    BY <1>1, <1>2, <1>3, TimesAreNatural
    DEF Fail, Unwind, Finish, Goto, Remaining, local, clocks, redis, Requests, Critical, BeforeRun, Saving, Waiting
  <1> QED
    BY <1>3, FailType, LocksUntouched DEF Fail, redis

(* DelLookup leaves the locks and their holders alone.                     *)
LEMMA DelLookupLock ==
  ASSUME TypeOK, LockOutlivesHolder, NEW d \in Deletion, NEW p \in Replica, NEW s \in Session, DelLookup(d, p, s)
  PROVE  LockOutlivesHolder'
  <1>1. pc \in [Requests -> PcValues] /\ target \in [Requests -> Session \cup {None}]
    BY DEF TypeOK, ControlType, LocalType
  <1>2. slack \in [Message -> Nat] /\ timer \in [Message -> Nat]
    BY DEF TypeOK, LocalType
  <1>3. ASSUME NEW q \in Message, pc'[q] \in Critical
        PROVE  /\ pc[q] \in Critical /\ target'[q] = target[q]
               /\ Remaining(q)' <= Remaining(q)
    BY <1>1, <1>2, <1>3, DisjointRequests, TimesAreNatural
    DEF DelLookup, Route, Finish, Goto, Remaining, local, clocks, redis, Requests, Critical, BeforeRun, Saving
  <1> QED
    BY <1>3, DelLookupType, LocksUntouched DEF DelLookup, redis

(* Pop leaves the locks and their holders alone.                           *)
LEMMA PopLock ==
  ASSUME TypeOK, LockOutlivesHolder, NEW d \in Deletion, Pop(d)
  PROVE  LockOutlivesHolder'
  <1>1. pc \in [Requests -> PcValues] /\ target \in [Requests -> Session \cup {None}]
    BY DEF TypeOK, ControlType, LocalType
  <1>2. slack \in [Message -> Nat] /\ timer \in [Message -> Nat]
    BY DEF TypeOK, LocalType
  <1>3. ASSUME NEW q \in Message, pc'[q] \in Critical
        PROVE  /\ pc[q] \in Critical /\ target'[q] = target[q]
               /\ Remaining(q)' <= Remaining(q)
    BY <1>1, <1>2, <1>3, DisjointRequests, TimesAreNatural
    DEF Pop, Goto, Remaining, local, clocks, redis, Requests, Critical, BeforeRun, Saving
  <1> QED
    BY <1>3, PopType, LocksUntouched DEF Pop, redis

(* Del leaves the locks and their holders alone.                           *)
LEMMA DelLock ==
  ASSUME TypeOK, LockOutlivesHolder, NEW d \in Deletion, NEW done \in BOOLEAN, NEW heard \in BOOLEAN, Del(d, done, heard)
  PROVE  LockOutlivesHolder'
  <1>1. pc \in [Requests -> PcValues] /\ target \in [Requests -> Session \cup {None}]
    BY DEF TypeOK, ControlType, LocalType
  <1>2. slack \in [Message -> Nat] /\ timer \in [Message -> Nat]
    BY DEF TypeOK, LocalType
  <1>3. ASSUME NEW q \in Message, pc'[q] \in Critical
        PROVE  /\ pc[q] \in Critical /\ target'[q] = target[q]
               /\ Remaining(q)' <= Remaining(q)
    BY <1>1, <1>2, <1>3, DisjointRequests, TimesAreNatural
    DEF Del, Finish, Goto, Remaining, local, clocks, redis, Requests, Critical, BeforeRun, Saving
  <1> QED
    BY <1>3, DelType, LocksUntouched DEF Del, redis

(* Close leaves the locks and their holders alone.                         *)
LEMMA CloseLock ==
  ASSUME TypeOK, LockOutlivesHolder, NEW d \in Deletion, Close(d)
  PROVE  LockOutlivesHolder'
  <1>1. pc \in [Requests -> PcValues] /\ target \in [Requests -> Session \cup {None}]
    BY DEF TypeOK, ControlType, LocalType
  <1>2. slack \in [Message -> Nat] /\ timer \in [Message -> Nat]
    BY DEF TypeOK, LocalType
  <1>3. ASSUME NEW q \in Message, pc'[q] \in Critical
        PROVE  /\ pc[q] \in Critical /\ target'[q] = target[q]
               /\ Remaining(q)' <= Remaining(q)
    BY <1>1, <1>2, <1>3, DisjointRequests, TimesAreNatural
    DEF Close, Goto, Remaining, local, clocks, redis, Requests, Critical, BeforeRun, Saving
  <1> QED
    BY <1>3, CloseType, LocksUntouched DEF Close, redis

(* CreateStore leaves the locks and their holders alone.                   *)
LEMMA CreateStoreLock ==
  ASSUME TypeOK, LockOutlivesHolder, NEW c \in Creation, NEW p \in Replica, NEW s \in Session, CreateStore(c, p, s)
  PROVE  LockOutlivesHolder'
  <1>1. pc \in [Requests -> PcValues] /\ target \in [Requests -> Session \cup {None}]
    BY DEF TypeOK, ControlType, LocalType
  <1>2. slack \in [Message -> Nat] /\ timer \in [Message -> Nat]
    BY DEF TypeOK, LocalType
  <1>3. ASSUME NEW q \in Message, pc'[q] \in Critical
        PROVE  /\ pc[q] \in Critical /\ target'[q] = target[q]
               /\ Remaining(q)' <= Remaining(q)
    BY <1>1, <1>2, <1>3, DisjointRequests, TimesAreNatural
    DEF CreateStore, Route, Goto, Remaining, local, clocks, redis, Requests, Critical, BeforeRun, Saving
  <1> QED
    BY <1>3, CreateStoreType, LocksUntouched DEF CreateStore, redis

(* Install leaves the locks and their holders alone.                       *)
LEMMA InstallLock ==
  ASSUME TypeOK, LockOutlivesHolder, NEW c \in Creation, Install(c)
  PROVE  LockOutlivesHolder'
  <1>1. pc \in [Requests -> PcValues] /\ target \in [Requests -> Session \cup {None}]
    BY DEF TypeOK, ControlType, LocalType
  <1>2. slack \in [Message -> Nat] /\ timer \in [Message -> Nat]
    BY DEF TypeOK, LocalType
  <1>3. ASSUME NEW q \in Message, pc'[q] \in Critical
        PROVE  /\ pc[q] \in Critical /\ target'[q] = target[q]
               /\ Remaining(q)' <= Remaining(q)
    BY <1>1, <1>2, <1>3, DisjointRequests, TimesAreNatural
    DEF Install, Finish, Goto, Remaining, local, clocks, redis, Requests, Critical, BeforeRun, Saving
  <1> QED
    BY <1>3, InstallType, LocksUntouched DEF Install, redis

(* InstallFails leaves the locks and their holders alone.                  *)
LEMMA InstallFailsLock ==
  ASSUME TypeOK, LockOutlivesHolder, NEW c \in Creation, InstallFails(c)
  PROVE  LockOutlivesHolder'
  <1>1. pc \in [Requests -> PcValues] /\ target \in [Requests -> Session \cup {None}]
    BY DEF TypeOK, ControlType, LocalType
  <1>2. slack \in [Message -> Nat] /\ timer \in [Message -> Nat]
    BY DEF TypeOK, LocalType
  <1>3. ASSUME NEW q \in Message, pc'[q] \in Critical
        PROVE  /\ pc[q] \in Critical /\ target'[q] = target[q]
               /\ Remaining(q)' <= Remaining(q)
    BY <1>1, <1>2, <1>3, DisjointRequests, TimesAreNatural
    DEF InstallFails, Finish, Goto, Remaining, local, clocks, redis, Requests, Critical, BeforeRun, Saving
  <1> QED
    BY <1>3, InstallFailsType, LocksUntouched DEF InstallFails, redis

(* A tick takes one from the lock's TTL and one from what its holder may   *)
(* still need, which was not yet zero.                                     *)
LEMMA TickLock ==
  ASSUME TypeOK, LockOutlivesHolder, Tick
  PROVE  LockOutlivesHolder'
  <1>1. /\ lock \in [Session -> Message \cup {None}]
        /\ lockTtl \in [Session -> Nat]
        /\ slack \in [Message -> Nat] /\ timer \in [Message -> Nat]
    BY DEF TypeOK, LocalType, RedisType
  <1>2. target' = target /\ pc' = pc
    BY DEF Tick, local
  <1> SUFFICES ASSUME NEW q \in Message, pc[q] \in Critical
               PROVE  /\ lock'[target[q]] = q
                      /\ lockTtl'[target[q]] > Remaining(q)'
    BY <1>2 DEF LockOutlivesHolder
  <1>3. /\ lock[target[q]] = q /\ lockTtl[target[q]] > Remaining(q)
        /\ target[q] \in Session
    BY DEF LockOutlivesHolder, TypeOK, BoundWhenUsed, Critical, BeforeRun, Saving, Requests
  <1>4. Remaining(q) \in Nat /\ lockTtl[target[q]] \in Nat
    BY <1>1, <1>3, RemainingType
  <1>5. Remaining(q)' = Remaining(q) - 1 /\ Remaining(q) >= 1
    <2>1. CASE pc[q] = "run"
      BY <2>1, <1>1, <1>2 DEF Tick, Remaining, CountDown, Waiting, Critical, BeforeRun, Saving
    <2>2. CASE pc[q] # "run"
      BY <2>2, <1>1, <1>2, TimesAreNatural
      DEF Tick, Remaining, CountDown, Waiting, Critical, BeforeRun, Saving
    <2> QED
      BY <2>1, <2>2
  <1>6. lock'[target[q]] = lock[target[q]] /\ lockTtl'[target[q]] = lockTtl[target[q]] - 1
    BY <1>3, <1>4, <1>5 DEF Tick, CountDown
  <1> QED
    BY <1>3, <1>4, <1>5, <1>6

(* Crash leaves the locks and their holders alone.                         *)
LEMMA CrashLock ==
  ASSUME TypeOK, LockOutlivesHolder, NEW p \in Replica, Crash(p)
  PROVE  LockOutlivesHolder'
  <1>1. pc \in [Requests -> PcValues]
    BY DEF TypeOK, ControlType
  <1>2. slack \in [Message -> Nat] /\ timer \in [Message -> Nat]
    BY DEF TypeOK, LocalType
  <1>3. ASSUME NEW q \in Message, pc'[q] \in Critical
        PROVE  /\ pc[q] \in Critical /\ target'[q] = target[q]
               /\ Remaining(q)' <= Remaining(q)
    BY <1>1, <1>2, <1>3, TimesAreNatural
    DEF Crash, Lost, Remaining, local, clocks, redis, Requests, Critical, BeforeRun, Saving
  <1> QED
    BY <1>3, CrashType, LocksUntouched DEF Crash, redis

(* No step of the replicas, of Redis or of time breaks the invariant.      *)
LEMMA LockStep ==
  ASSUME TypeOK, LockOutlivesHolder, [Next]_vars
  PROVE  LockOutlivesHolder'
  <1>1. CASE UNCHANGED vars
    BY <1>1 DEF LockOutlivesHolder, Remaining, vars, redis, local, clocks
  <1>2. ASSUME NEW r \in Message, MessageStep(r)
        PROVE  LockOutlivesHolder'
    BY <1>2, ArriveLock, AcquireLock, RereadLock, AttachLock, TouchLock,
       RunDoneLock, RunTimeoutLock, RunFailsLock, SaveGetLock, SaveSetLock,
       ReleaseLock, FailLock
    DEF MessageStep
  <1>3. ASSUME NEW d \in Deletion, DeletionStep(d)
        PROVE  LockOutlivesHolder'
    BY <1>3, DelLookupLock, PopLock, DelLock, CloseLock DEF DeletionStep
  <1>4. ASSUME NEW c \in Creation, CreationStep(c)
        PROVE  LockOutlivesHolder'
    BY <1>4, CreateStoreLock, InstallLock, InstallFailsLock DEF CreationStep
  <1>5. CASE Tick
    BY <1>5, TickLock
  <1>6. ASSUME NEW p \in Replica, Crash(p)
        PROVE  LockOutlivesHolder'
    BY <1>6, CrashLock
  <1> QED
    BY <1>1, <1>2, <1>3, <1>4, <1>5, <1>6 DEF Next

(* The TTL of a lock always exceeds what its holder may still need.        *)
THEOREM LockAlwaysOutlives == Spec => []LockOutlivesHolder
  <1>1. Init => LockOutlivesHolder
    BY DEF Init, LockOutlivesHolder, Requests, Critical, BeforeRun, Saving
  <1>2. TypeOK /\ LockOutlivesHolder /\ [Next]_vars => LockOutlivesHolder'
    BY LockStep
  <1> QED
    BY <1>1, <1>2, TypeCorrect, PTL DEF Spec

(* A message inside the lock holds it, so no two messages are inside on    *)
(* one session.                                                            *)
THEOREM LockIsKept == Spec => []HolderKeepsLock
  <1>1. LockOutlivesHolder => HolderKeepsLock
    BY DEF LockOutlivesHolder, HolderKeepsLock
  <1> QED
    BY <1>1, LockAlwaysOutlives, PTL

-----------------------------------------------------------------------------
(* The steps that write a key: all others leave Redis alone.               *)
LEMMA RedisWriters ==
  ASSUME [Next]_vars
  PROVE  \/ UNCHANGED redis
         \/ \E r \in Message, heard \in BOOLEAN : Acquire(r, heard)
         \/ \E r \in Message : Touch(r)
         \/ \E r \in Message, heard \in BOOLEAN : SaveSet(r, heard)
         \/ \E r \in Message, done, heard \in BOOLEAN : Release(r, done, heard)
         \/ \E d \in Deletion, done, heard \in BOOLEAN : Del(d, done, heard)
         \/ \E c \in Creation, p \in Replica, s \in Session : CreateStore(c, p, s)
         \/ Tick
  <1>1. CASE UNCHANGED vars
    BY <1>1 DEF vars
  <1>2. ASSUME NEW r \in Message, MessageStep(r)
        PROVE  \/ UNCHANGED redis
               \/ \E heard \in BOOLEAN : Acquire(r, heard) \/ SaveSet(r, heard)
               \/ Touch(r)
               \/ \E done, heard \in BOOLEAN : Release(r, done, heard)
    BY <1>2 DEF MessageStep, Arrive, Reread, Attach, RunDone, RunTimeout, RunFails, SaveGet, Fail
  <1>3. ASSUME NEW d \in Deletion, DeletionStep(d)
        PROVE  UNCHANGED redis \/ \E done, heard \in BOOLEAN : Del(d, done, heard)
    BY <1>3 DEF DeletionStep, DelLookup, Pop, Close
  <1>4. ASSUME NEW c \in Creation, CreationStep(c)
        PROVE  UNCHANGED redis \/ \E p \in Replica, s \in Session : CreateStore(c, p, s)
    BY <1>4 DEF CreationStep, Install, InstallFails
  <1>5. ASSUME NEW p \in Replica, Crash(p)
        PROVE  UNCHANGED redis
    BY <1>5 DEF Crash
  <1> QED
    BY <1>1, <1>2, <1>3, <1>4, <1>5 DEF Next

(* The types of the keys, and where the requests that write them are bound.*)
LEMMA KeyTypes ==
  ASSUME TypeOK
  PROVE  /\ store \in [Session -> Record \cup {None}] /\ ttl \in [Session -> Nat]
         /\ lock \in [Session -> Message \cup {None}] /\ lockTtl \in [Session -> Nat]
         /\ pc \in [Requests -> PcValues]
         /\ \A q \in Requests : pc[q] # "idle" => target[q] \in Session
         /\ Message \subseteq Requests /\ Deletion \subseteq Requests /\ Creation \subseteq Requests
         /\ LockTimeout \in Nat \ {0} /\ SessionTtl \in Nat \ {0}
  BY TimesAreNatural
  DEF TypeOK, RedisType, ControlType, BoundWhenUsed, Requests, LockTimeout

(* No step leaves a key without a TTL: who writes a key sets its TTL, and  *)
(* a TTL that gets to zero takes the key with it.                          *)
LEMMA ExpiryStep ==
  ASSUME TypeOK, EveryKeyExpires, [Next]_vars
  PROVE  EveryKeyExpires'
  <1>1. CASE UNCHANGED redis
    BY <1>1 DEF redis, EveryKeyExpires
  <1>2. ASSUME NEW r \in Message, NEW heard \in BOOLEAN, Acquire(r, heard)
        PROVE  EveryKeyExpires'
    BY <1>2, KeyTypes DEF Acquire, TakeLock, EveryKeyExpires
  <1>3. ASSUME NEW r \in Message, Touch(r)
        PROVE  EveryKeyExpires'
    BY <1>3, KeyTypes DEF Touch, Renew, EveryKeyExpires
  <1>4. ASSUME NEW r \in Message, NEW heard \in BOOLEAN, SaveSet(r, heard)
        PROVE  EveryKeyExpires'
    BY <1>4, KeyTypes DEF SaveSet, Write, EveryKeyExpires
  <1>5. ASSUME NEW r \in Message, NEW done \in BOOLEAN, NEW heard \in BOOLEAN,
               Release(r, done, heard)
        PROVE  EveryKeyExpires'
    BY <1>5, KeyTypes DEF Release, FreeLock, EveryKeyExpires
  <1>6. ASSUME NEW d \in Deletion, NEW done \in BOOLEAN, NEW heard \in BOOLEAN,
               Del(d, done, heard)
        PROVE  EveryKeyExpires'
    BY <1>6, KeyTypes DEF Del, EveryKeyExpires
  <1>7. ASSUME NEW c \in Creation, NEW p \in Replica, NEW s \in Session, CreateStore(c, p, s)
        PROVE  EveryKeyExpires'
    BY <1>7, KeyTypes DEF CreateStore, EveryKeyExpires
  <1>8. CASE Tick
    BY <1>8, KeyTypes DEF Tick, CountDown, EveryKeyExpires
  <1> QED
    BY <1>1, <1>2, <1>3, <1>4, <1>5, <1>6, <1>7, <1>8, RedisWriters

(* No session and no lock stays in Redis for ever, whoever dies and        *)
(* whatever reply is lost.                                                 *)
THEOREM KeysExpire == Spec => []EveryKeyExpires
  <1>1. Init => EveryKeyExpires
    BY TimesAreNatural DEF Init, EveryKeyExpires
  <1>2. TypeOK /\ EveryKeyExpires /\ [Next]_vars => EveryKeyExpires'
    BY ExpiryStep
  <1> QED
    BY <1>1, <1>2, TypeCorrect, PTL DEF Spec

(* The lock of a session changes hands only through its holder's release   *)
(* or its own expiry: one who comes waits, one who is late takes nothing.  *)
LEMMA OwnerStep ==
  ASSUME TypeOK, [Next]_vars, NEW s \in Session, lock[s] # None, lock'[s] # lock[s]
  PROVE  \/ Tick /\ lockTtl[s] = 1
         \/ pc[lock[s]] = "release" /\ pc'[lock[s]] = "done"
  <1>1. CASE UNCHANGED redis
    BY <1>1 DEF redis
  <1>2. ASSUME NEW r \in Message, NEW heard \in BOOLEAN, Acquire(r, heard)
        PROVE  FALSE
    BY <1>2, KeyTypes DEF Acquire, LockFree, TakeLock
  <1>3. ASSUME NEW r \in Message, NEW done \in BOOLEAN, NEW heard \in BOOLEAN,
               Release(r, done, heard)
        PROVE  pc[lock[s]] = "release" /\ pc'[lock[s]] = "done"
    <2>1. lock[s] = r
      BY <1>3, KeyTypes DEF Release, FreeLock, OwnsLock
    <2> QED
      BY <1>3, <2>1, KeyTypes DEF Release, Finish, Goto
  <1>4. ASSUME Tick
        PROVE  lockTtl[s] = 1
    BY <1>4, KeyTypes DEF Tick
  <1>5. \/ UNCHANGED redis \/ Tick \/ lock' = lock
        \/ \E r \in Message, heard \in BOOLEAN : Acquire(r, heard)
        \/ \E r \in Message, done, heard \in BOOLEAN : Release(r, done, heard)
    BY RedisWriters DEF Touch, SaveSet, Del, CreateStore
  <1> QED
    BY <1>1, <1>2, <1>3, <1>4, <1>5

(* Nobody frees or takes a lock that somebody else holds.                  *)
THEOREM LocksChangeByTheirOwners == Spec => OnlyOwnerReleases
  <1>1. TypeOK /\ [Next]_vars =>
          [\A s \in Session :
             lock[s] # None /\ lock'[s] # lock[s] =>
               \/ Tick /\ lockTtl[s] = 1
               \/ pc[lock[s]] = "release" /\ pc'[lock[s]] = "done"]_vars
    BY OwnerStep
  <1> QED
    BY <1>1, TypeCorrect, PTL DEF Spec, OnlyOwnerReleases

(* The stretch is behind a message that is here.                           *)
Leaving == {"release", "done"}

(* A lock is held by a message for its own session, inside the stretch or  *)
(* on its way out, or was left behind by one that is over: its release or  *)
(* the answer to its acquire was lost.                                     *)
LockNamesHolder ==
  \A s \in Session :
    lock[s] # None => /\ target[lock[s]] = s
                      /\ pc[lock[s]] \in Critical \cup Leaving

(* A message that is inside, or behind it, keeps to its session and is     *)
(* inside, or behind it, after any step.                                   *)
LEMMA InsideOrBehind ==
  ASSUME TypeOK, [Next]_vars,
         NEW q \in Message, pc[q] \in Critical \cup Leaving
  PROVE  target'[q] = target[q] /\ pc'[q] \in Critical \cup Leaving
  <1>1. /\ pc \in [Requests -> PcValues] /\ target \in [Requests -> Session \cup {None}]
        /\ q \in Requests /\ pc[q] \notin {"idle", "acquire"}
    BY DEF TypeOK, ControlType, LocalType, Requests, Critical, BeforeRun, Saving, Leaving
  <1>2. CASE UNCHANGED vars
    BY <1>2 DEF vars, local
  <1>3. ASSUME NEW r \in Message, MessageStep(r)
        PROVE  target'[q] = target[q] /\ pc'[q] \in Critical \cup Leaving
    <2>1. r \in Requests
      BY DEF Requests
    <2>2. (\E p \in Replica, s \in Session : Arrive(r, p, s))
            => target'[q] = target[q] /\ pc'[q] \in Critical \cup Leaving
      BY <1>1, <2>1 DEF Arrive, Route, Finish, Goto, Leaving
    <2>3. (\E heard \in BOOLEAN : Acquire(r, heard))
            => target'[q] = target[q] /\ pc'[q] \in Critical \cup Leaving
      BY <1>1, <2>1 DEF Acquire, Finish, Goto, local, Leaving
    <2>4. Reread(r) \/ Attach(r) \/ Touch(r) \/ RunDone(r)
            => target'[q] = target[q] /\ pc'[q] \in Critical \cup Leaving
      BY <1>1, <2>1 DEF Reread, Attach, Touch, RunDone, Unwind, Goto, local,
         Critical, BeforeRun, Saving, Leaving
    <2>5. RunTimeout(r) \/ RunFails(r) \/ SaveGet(r)
          \/ (\E heard \in BOOLEAN : SaveSet(r, heard))
            => target'[q] = target[q] /\ pc'[q] \in Critical \cup Leaving
      BY <1>1, <2>1 DEF RunTimeout, RunFails, SaveGet, SaveSet, Unwind, Goto, local,
         Critical, BeforeRun, Saving, Leaving
    <2>6. (\E done, heard \in BOOLEAN : Release(r, done, heard)) \/ Fail(r)
            => target'[q] = target[q] /\ pc'[q] \in Critical \cup Leaving
      BY <1>1, <2>1 DEF Release, Fail, Unwind, Finish, Goto, local,
         Critical, BeforeRun, Saving, Leaving
    <2> QED
      BY <1>3, <2>2, <2>3, <2>4, <2>5, <2>6 DEF MessageStep
  <1>4. ASSUME NEW d \in Deletion, DeletionStep(d)
        PROVE  target'[q] = target[q] /\ pc'[q] = pc[q]
    <2>1. d # q /\ d \in Requests
      BY DisjointRequests DEF Requests
    <2> QED
      BY <1>1, <1>4, <2>1
      DEF DeletionStep, DelLookup, Pop, Del, Close, Route, Finish, Goto, local
  <1>5. ASSUME NEW c \in Creation, CreationStep(c)
        PROVE  target'[q] = target[q] /\ pc'[q] = pc[q]
    <2>1. c # q /\ c \in Requests
      BY DisjointRequests DEF Requests
    <2> QED
      BY <1>1, <1>5, <2>1
      DEF CreationStep, CreateStore, Install, InstallFails, Route, Finish, Goto, local
  <1>6. ASSUME NEW p \in Replica, Crash(p)
        PROVE  target'[q] = target[q] /\ pc'[q] \in {pc[q], "done"}
    BY <1>1, <1>6 DEF Crash, local
  <1>7. Tick => target' = target /\ pc' = pc
    BY DEF Tick, local
  <1> QED
    BY <1>2, <1>3, <1>4, <1>5, <1>6, <1>7 DEF Next, Leaving

(* Who takes a lock goes inside, or is over at once: its answer was lost.  *)
LEMMA HolderStep ==
  ASSUME TypeOK, LockNamesHolder, [Next]_vars
  PROVE  LockNamesHolder'
  <1> SUFFICES ASSUME NEW s \in Session, lock'[s] # None
               PROVE  /\ target'[lock'[s]] = s
                      /\ pc'[lock'[s]] \in Critical \cup Leaving
    BY DEF LockNamesHolder
  <1>1. CASE lock'[s] = lock[s]
    <2>1. /\ lock[s] \in Message /\ target[lock[s]] = s
          /\ pc[lock[s]] \in Critical \cup Leaving
      BY <1>1, KeyTypes DEF LockNamesHolder
    <2> QED
      BY <1>1, <2>1, InsideOrBehind
  <1>2. ASSUME NEW r \in Message, NEW heard \in BOOLEAN, Acquire(r, heard), lock'[s] # lock[s]
        PROVE  /\ target'[lock'[s]] = s
               /\ pc'[lock'[s]] \in Critical \cup Leaving
    <2>1. lock'[s] = r /\ target[r] = s /\ target' = target /\ r \in Requests
      BY <1>2, KeyTypes DEF Acquire, TakeLock, local
    <2>2. pc'[r] \in {"reread", "done"}
      BY <1>2, <2>1, KeyTypes DEF Acquire, Goto, Finish
    <2> QED
      BY <2>1, <2>2 DEF Critical, BeforeRun, Leaving
  <1>3. ASSUME lock'[s] # lock[s], lock'[s] # None
        PROVE  \E r \in Message, heard \in BOOLEAN : Acquire(r, heard)
    <2>1. ASSUME NEW r \in Message, NEW done \in BOOLEAN, NEW heard \in BOOLEAN,
                 Release(r, done, heard)
          PROVE  FALSE
      <3>1. lock' \in {lock, [lock EXCEPT ![target[r]] = None]}
        BY <2>1 DEF Release, FreeLock
      <3> QED
        BY <1>3, <3>1, KeyTypes
    <2>2. ~Tick
      BY <1>3, KeyTypes DEF Tick
    <2> QED
      BY <1>3, <2>1, <2>2, RedisWriters DEF redis, Touch, SaveSet, Del, CreateStore
  <1> QED
    BY <1>1, <1>2, <1>3

(* Every lock is held by a message of its session that is inside or behind.*)
THEOREM LocksAreHeldOrLeft == Spec => []LockNamesHolder
  <1>1. Init => LockNamesHolder
    BY DEF Init, LockNamesHolder
  <1>2. TypeOK /\ LockNamesHolder /\ [Next]_vars => LockNamesHolder'
    BY HolderStep
  <1> QED
    BY <1>1, <1>2, TypeCorrect, PTL DEF Spec

(* A lock that expires is that of a message that is behind its stretch.    *)
LEMMA ExpiredWasLeft ==
  ASSUME TypeOK, LockNamesHolder, HolderKeepsLock',
         NEW s \in Session, lock[s] # None, lock'[s] = None, UNCHANGED <<pc, target>>
  PROVE  pc[lock[s]] \in Leaving
  <1>1. /\ lock[s] \in Message /\ target[lock[s]] = s
        /\ pc[lock[s]] \in Critical \cup Leaving
    BY KeyTypes DEF LockNamesHolder
  <1> DEFINE m == lock[s]
  <1>2. PICK r \in Message : r = m
    BY <1>1
  <1>3. r # None
    BY <1>2
  <1>4. ~(pc[r] \in Critical)
    BY <1>1, <1>2, <1>3 DEF HolderKeepsLock
  <1> QED
    BY <1>1, <1>2, <1>4

(* A TTL frees only the lock of a message that is releasing it or over,    *)
(* never of one still at work: what Service.tla takes for granted of one   *)
(* process (LockExpires).                                                  *)
THEOREM LocksExpireWhenLeft ==
  Spec => [][\A s \in Session :
               Tick /\ lock[s] # None /\ lock'[s] = None => pc[lock[s]] \in Leaving]_vars
  <1>1. TypeOK /\ LockNamesHolder /\ HolderKeepsLock' =>
          [\A s \in Session :
             Tick /\ lock[s] # None /\ lock'[s] = None => pc[lock[s]] \in Leaving]_vars
    BY ExpiredWasLeft DEF Tick, local
  <1> QED
    BY <1>1, TypeCorrect, LocksAreHeldOrLeft, LockIsKept, PTL DEF Spec

=============================================================================
