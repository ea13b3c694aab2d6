---------------------------- MODULE RegistryProofs ----------------------------
(***************************************************************************)
(* The registry is always what one whole scan read, and an idle watcher    *)
(* has forgotten no change it was told of: for any number of agents and    *)
(* edits, made at any moment.                                              *)
(***************************************************************************)
EXTENDS AgentRegistry, TLAPS

(* What a scan has found so far was so on disk since it began.             *)
ScanIsHonest ==
  Scanning =>
    /\ \A a \in Agent : disk[a] \in seen[a]
    /\ \A a \in Agent \ listing : found[a] \in seen[a]

(* Unless a change is waiting, what the scan has found so far is still so. *)
ScanIsCurrent ==
  Scanning /\ pending = {} /\ ~missed =>
    \A a \in Agent \ listing : found[a] = disk[a]

(* A path without a suffix is the only change the watcher hears of and     *)
(* does not act on; before there is a watcher nothing waits.               *)
PendingIsKnown ==
  /\ ~Watching => pending = {}
  /\ "other" \in pending => missed

(* The registry stays right between the start-up scan and the watcher.     *)
BootIsCurrent == pc = "booted" /\ ~missed => registry = disk

RegistryInv ==
  /\ TypeOK
  /\ ScanIsHonest
  /\ ScanIsCurrent
  /\ PendingIsKnown
  /\ BootIsCurrent
  /\ QuietMeansCurrent

(* Every action keeps the types.                                           *)
LEMMA RegistryTypes ==
  ASSUME TypeOK, [Next]_vars
  PROVE  TypeOK'
  <1>1. CASE UNCHANGED vars
    BY <1>1 DEF TypeOK, vars
  <1>2. CASE BootScan \/ Reload
    <2>1. /\ listing' \in SUBSET Agent
          /\ found' = Empty /\ seen' = [a \in Agent |-> {disk[a]}] /\ missed' = FALSE
          /\ pc' \in {"bootScan", "reload"} /\ pending' \in {{}, pending}
          /\ UNCHANGED <<disk, registry, edits>>
      BY <1>2 DEF BootScan, Reload, List, OnDisk, FoundReset
    <2>2. found' \in [Agent -> Config \cup {None}]
      BY <2>1 DEF Empty
    <2>3. seen' \in [Agent -> SUBSET (Config \cup {None, Broken})]
      BY <2>1 DEF TypeOK
    <2> QED
      BY <2>1, <2>2, <2>3 DEF TypeOK
  <1>3. ASSUME NEW a \in Agent, ReadOne(a)
        PROVE  TypeOK'
    BY <1>3 DEF TypeOK, ReadOne
  <1>4. ASSUME NEW a \in Agent, ReadBroken(a)
        PROVE  TypeOK'
    BY <1>4 DEF TypeOK, ReadBroken, Abandon
  <1>5. CASE Swap \/ StartWatch \/ Ignore
    BY <1>5 DEF TypeOK, Swap, StartWatch, Ignore
  <1>6. ASSUME NEW new \in [Agent -> Config \cup {None, Broken}],
               NEW kind \in {"config", "other"}, Change(new, kind)
        PROVE  TypeOK'
    BY <1>6, AgentsAndBounds DEF TypeOK, Change, Notify
  <1>7. ASSUME NEW a \in Agent, Edit(a)
        PROVE  TypeOK'
    <2>1. PICK v \in {edits + 1, Broken, None} :
            Change([disk EXCEPT ![a] = v], "config")
      BY <1>7 DEF Edit
    <2>2. edits + 1 \in Config
      BY <2>1, AgentsAndBounds DEF TypeOK, Change, Config
    <2> QED
      BY <1>6, <2>1, <2>2 DEF TypeOK
  <1>8. ASSUME NEW a \in Agent, NEW b \in Agent, Rename(a, b)
        PROVE  TypeOK'
    BY <1>6, <1>8 DEF TypeOK, Rename
  <1> QED
    BY <1>1, <1>2, <1>3, <1>4, <1>5, <1>7, <1>8 DEF Next, Reloader

(* Every action keeps the invariant.                                       *)
LEMMA RegistryStep ==
  ASSUME RegistryInv, [Next]_vars
  PROVE  RegistryInv'
  <1>0. TypeOK /\ TypeOK'
    BY RegistryTypes DEF RegistryInv
  <1>1. CASE UNCHANGED vars
    BY <1>1
    DEF vars, RegistryInv, TypeOK, ScanIsHonest, ScanIsCurrent, PendingIsKnown, BootIsCurrent,
        QuietMeansCurrent, Scanning, Watching, Loads
  <1>2. CASE BootScan \/ Reload
    <2>1. /\ disk' = disk /\ found' = Empty /\ pc' \in {"bootScan", "reload"}
          /\ pending' = {} /\ missed' = FALSE
          /\ listing' = {a \in Agent : disk[a] # None}
          /\ seen' = [a \in Agent |-> {disk[a]}]
      BY <1>2
      DEF BootScan, Reload, List, FoundReset, OnDisk, RegistryInv, PendingIsKnown, Watching
    <2> QED
      BY <1>0, <2>1
      DEF RegistryInv, ScanIsHonest, ScanIsCurrent, PendingIsKnown, BootIsCurrent,
          QuietMeansCurrent, Scanning, Watching, Empty
  <1>3. ASSUME NEW a \in Agent, ReadOne(a)
        PROVE  RegistryInv'
    BY <1>0, <1>3
    DEF ReadOne, RegistryInv, TypeOK, ScanIsHonest, ScanIsCurrent, PendingIsKnown,
        BootIsCurrent, QuietMeansCurrent, Scanning, Watching
  <1>4. ASSUME NEW a \in Agent, ReadBroken(a)
        PROVE  RegistryInv'
    BY <1>0, <1>4
    DEF ReadBroken, Abandon, RegistryInv, ScanIsHonest, ScanIsCurrent, PendingIsKnown,
        BootIsCurrent, QuietMeansCurrent, Scanning, Watching, Loads
  <1>5. CASE Swap
    <2>1. pending = {} /\ ~missed => found = disk
      BY <1>5 DEF Swap, RegistryInv, ScanIsCurrent, TypeOK
    <2> QED
      BY <1>0, <1>5, <2>1
      DEF Swap, RegistryInv, ScanIsHonest, ScanIsCurrent, PendingIsKnown, BootIsCurrent,
          QuietMeansCurrent, Scanning, Watching
  <1>6. CASE StartWatch \/ Ignore
    BY <1>0, <1>6
    DEF StartWatch, Ignore, RegistryInv, ScanIsHonest, ScanIsCurrent, PendingIsKnown,
        BootIsCurrent, QuietMeansCurrent, Scanning, Watching
  <1>7. ASSUME NEW new, NEW kind \in {"config", "other"}, Change(new, kind)
        PROVE  RegistryInv'
    <2>1. ~missed' => pending' # {} /\ Watching
      BY <1>7 DEF Change, Notify
    <2>2. ScanIsHonest'
      BY <1>0, <1>7 DEF Change, RegistryInv, ScanIsHonest, Scanning, TypeOK
    <2>3. PendingIsKnown'
      BY <1>7 DEF Change, Notify, RegistryInv, PendingIsKnown, Watching
    <2> QED
      BY <1>0, <1>7, <2>1, <2>2, <2>3
      DEF Change, RegistryInv, ScanIsCurrent, BootIsCurrent, QuietMeansCurrent, Scanning, Watching
  <1>8. ASSUME NEW a \in Agent, Edit(a)
        PROVE  RegistryInv'
    BY <1>7, <1>8 DEF Edit
  <1>9. ASSUME NEW a \in Agent, NEW b \in Agent, Rename(a, b)
        PROVE  RegistryInv'
    BY <1>7, <1>9 DEF Rename
  <1> QED
    BY <1>1, <1>2, <1>3, <1>4, <1>5, <1>6, <1>8, <1>9 DEF Next, Reloader

(* The invariant holds of every reachable state.                           *)
THEOREM RegistryHolds == Spec => []RegistryInv
  <1>1. Init => RegistryInv
    <2> SUFFICES ASSUME Init
                 PROVE  RegistryInv
      OBVIOUS
    <2>1. 0 \in Config /\ edits \in 0 .. MaxEdits
      BY AgentsAndBounds DEF Init, Config
    <2>2. TypeOK
      BY <2>1 DEF Init, TypeOK, Empty
    <2> QED
      BY <2>2
      DEF Init, RegistryInv, ScanIsHonest, ScanIsCurrent, PendingIsKnown, BootIsCurrent,
          QuietMeansCurrent, Scanning, Watching
  <1>2. RegistryInv /\ [Next]_vars => RegistryInv'
    BY RegistryStep
  <1> QED
    BY <1>1, <1>2, PTL DEF Spec

(* The registry, the disk and what a scan has found are always of their    *)
(* types, whatever scan is interrupted by whatever edit.                   *)
THEOREM RegistryTypeCorrect == Spec => []TypeOK
  <1>1. RegistryInv => TypeOK
    BY DEF RegistryInv
  <1> QED
    BY <1>1, RegistryHolds, PTL

(* An idle watcher has forgotten no change it was told of.                 *)
THEOREM IdleIsCurrent == Spec => []QuietMeansCurrent
  <1>1. RegistryInv => QuietMeansCurrent
    BY DEF RegistryInv
  <1> QED
    BY <1>1, RegistryHolds, PTL

(* A new registry is what one whole scan read.                             *)
THEOREM RegistryIsWhole == Spec => RegistryIsOneScan
  <1>1. RegistryInv /\ [Next]_vars =>
          [registry' # registry => \A a \in Agent : registry'[a] \in seen[a]]_registry
    <2> SUFFICES ASSUME RegistryInv, [Next]_vars, registry' # registry
                 PROVE  \A a \in Agent : registry'[a] \in seen[a]
      OBVIOUS
    <2>1. Swap
      BY DEF Next, Reloader, vars, BootScan, ReadOne, ReadBroken, StartWatch, Reload, Ignore,
             Edit, Rename, Change
    <2> QED
      BY <2>1 DEF Swap, RegistryInv, ScanIsHonest
  <1> QED
    BY <1>1, RegistryHolds, PTL DEF Spec, RegistryIsOneScan
=============================================================================
