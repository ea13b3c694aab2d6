--------------------------- MODULE RateLimitProofs ---------------------------
(***************************************************************************)
(* Stream slots are neither lost nor invented, for any limits, any number  *)
(* of requests and faults: the counter never exceeds the open slots but by *)
(* those that faults took, and until the stream key has expired under an   *)
(* open slot it is never below them, so that the cap holds.  Nor does the  *)
(* counter of a minute let more requests through than its limit before its *)
(* key expires, which it never does within the minute.                     *)
(***************************************************************************)
EXTENDS RateLimit, FiniteSetTheorems, TLAPS

(* Who is about to INCR or EXPIRE the counter of a minute has made its key *)
(* in this minute or an earlier one; who waits to do so is not let through.*)
KeyIsMade ==
  \A r \in Request :
    /\ pc[r] \in {"hit", "hitExpire"} => window[r] \in Window /\ window[r] <= Now
    /\ pc[r] \in {"idle", "hit"} => admitted[r] = None

(* The minute of a tick.                                                   *)
LEMMA MinuteOf ==
  ASSUME NEW t \in Nat
  PROVE  /\ t \div Minute \in Nat
         /\ Minute * (t \div Minute) <= t
         /\ t < Minute * (t \div Minute + 1)
  BY LimitsAreNatural

(* Later ticks are in later minutes or the same.                           *)
LEMMA MinutesInOrder ==
  ASSUME NEW s \in Nat, NEW t \in Nat, s <= t
  PROVE  s \div Minute <= t \div Minute
  <1>1. /\ Minute * (s \div Minute) <= s /\ t < Minute * (t \div Minute + 1)
        /\ s \div Minute \in Nat /\ t \div Minute \in Nat
    BY MinuteOf
  <1> QED
    <2> DEFINE a == s \div Minute
    <2> DEFINE b == t \div Minute
    <2>1. Minute * a < Minute * (b + 1) /\ a \in Nat /\ b \in Nat /\ Minute \in Nat \ {0}
      <3>1. Minute * a \in Nat /\ Minute * (b + 1) \in Nat
        BY <1>1, LimitsAreNatural
      <3> QED
        BY <1>1, <3>1, LimitsAreNatural
    <2> HIDE DEF a, b
    <2>2. a < b + 1
      BY <2>1
    <2>3. a <= b
      BY <2>1, <2>2
    <2> QED
      BY <2>3 DEF a, b

(* Every tick is in a minute that has a counter.                           *)
LEMMA NowHasACounter ==
  ASSUME NEW t \in 0 .. MaxClock
  PROVE  t \div Minute \in Window
  BY MinuteOf, MinutesInOrder, LimitsAreNatural DEF Window

(* Only a stream gets to the commands on slots.                            *)
SlotsAreForStreams ==
  \A r \in Request : pc[r] \in {"slot", "slotExpire", "giveBack", "decr"} => Slotted(r)

(* Those that took a slot and were let through.                            *)
LetThrough == {r \in Holders : pc[r] # "giveBack"}

(* Until the key has lapsed, every open slot is counted.                   *)
SlotsAreCounted == ~lapsed => Cardinality(Holders) <= Counted

CapHolds == ~lapsed /\ MaxStreams > 0 => Cardinality(LetThrough) <= MaxStreams

SlotInv ==
  /\ TypeOK
  /\ KeyIsMade
  /\ SlotsAreForStreams
  /\ NoPhantomSlot
  /\ SlotsAreCounted
  /\ CapHolds

(* Every action keeps the types.                                           *)
LEMMA LimitTypes ==
  ASSUME TypeOK, KeyIsMade, [Next]_vars
  PROVE  TypeOK'
  <1>1. CASE UNCHANGED vars
    BY <1>1 DEF TypeOK, vars, counters, ghosts
  <1>2. ASSUME NEW r \in Request, TooLarge(r) \/ Respond(r) \/ EndBody(r)
        PROVE  TypeOK'
    BY <1>2 DEF TypeOK, TooLarge, Respond, EndBody, Goto, counters, ghosts, PcValues, Holding
  <1>9. ASSUME NEW r \in Request, Arrive(r)
        PROVE  TypeOK'
    <2>1. Now \in Window
      BY NowHasACounter DEF TypeOK, Now
    <2>2. window' \in [Request -> Window \cup {None}]
      BY <1>9, <2>1 DEF TypeOK, Arrive
    <2>3. pc' \in [Request -> PcValues]
      BY <1>9 DEF TypeOK, Arrive, Goto, AfterHit, PcValues, Holding
    <2> QED
      BY <1>9, <2>2, <2>3 DEF TypeOK, Arrive, counters, ghosts
  <1>3. ASSUME NEW r \in Request, Hit(r)
        PROVE  TypeOK'
    <2>1. hits' \in [Window -> Nat]
      <3>1. \A w \in Window : hits[w] + 1 \in Nat
        BY DEF TypeOK
      <3>2. window[r] \in Window
        BY <1>3 DEF KeyIsMade, Hit
      <3>3. hits' = [hits EXCEPT ![window[r]] = hits[window[r]] + 1]
        BY <1>3 DEF Hit
      <3> QED
        BY <3>1, <3>2, <3>3 DEF TypeOK
    <2>2. admitted' \in [Request -> (0 .. MaxClock) \cup {None}]
      BY <1>3 DEF TypeOK, Hit, Admit
    <2>3. pc' \in [Request -> PcValues]
      BY <1>3 DEF TypeOK, Hit, Goto, AfterHit, PcValues, Holding
    <2> QED
      BY <1>3, <2>1, <2>2, <2>3 DEF TypeOK, Hit, ghosts
  <1>4. ASSUME NEW r \in Request, HitExpire(r)
        PROVE  TypeOK'
    <2>1. hitsTtl' \in [Window -> Nat]
      BY <1>4, LimitsAreNatural DEF TypeOK, HitExpire, HitTtl
    <2>2. pc' \in [Request -> PcValues]
      BY <1>4 DEF TypeOK, HitExpire, Goto, AfterHit, PcValues, Holding
    <2> QED
      BY <1>4, <2>1, <2>2 DEF TypeOK, HitExpire, ghosts
  <1>5. ASSUME NEW r \in Request, TakeSlot(r) \/ GiveBack(r) \/ Decr(r)
        PROVE  TypeOK'
    <2>1. Counted \in Int
      BY NoneIsNoNumber DEF Counted, TypeOK
    <2>2. streams' \in Int
      BY <1>5, <2>1 DEF TakeSlot, GiveBack, Return, Decr
    <2>3. pc' \in [Request -> PcValues]
      BY <1>5 DEF TypeOK, TakeSlot, GiveBack, Decr, Goto, PcValues, Holding
    <2> QED
      BY <1>5, <2>2, <2>3 DEF TypeOK, TakeSlot, GiveBack, Decr, ghosts
  <1>6. ASSUME NEW r \in Request, SlotExpire(r)
        PROVE  TypeOK'
    BY <1>6, LimitsAreNatural DEF TypeOK, SlotExpire, Goto, PcValues, Holding, ghosts
  <1>7. ASSUME NEW r \in Request, Break(r)
        PROVE  TypeOK'
    BY <1>7, LimitsAreNatural DEF TypeOK, Break, Goto, counters, PcValues
  <1>8. CASE Tick
    BY <1>8, LimitsAreNatural DEF TypeOK, Tick, CountDown
  <1> QED
    BY <1>1, <1>2, <1>3, <1>4, <1>5, <1>6, <1>7, <1>8, <1>9 DEF Next, Step

(* Every action keeps the keys of this minute or of an earlier one.        *)
LEMMA KeyStep ==
  ASSUME TypeOK, KeyIsMade, [Next]_vars
  PROVE  KeyIsMade'
  <1>0. Now \in Window
    BY NowHasACounter DEF TypeOK, Now
  <1>1. CASE UNCHANGED vars
    BY <1>1 DEF KeyIsMade, vars, Now
  <1>2. ASSUME NEW r \in Request, Arrive(r)
        PROVE  KeyIsMade'
    <2>1. Now' = Now /\ Now \in Nat
      BY <1>0, <1>2 DEF Arrive, Now, Window
    <2>2. CASE Rpm = 0
      <3>1. \A q \in Request : q # r => pc'[q] = pc[q]
        BY <1>2 DEF TypeOK, Arrive, Goto
      <3>2. pc'[r] \notin {"idle", "hit", "hitExpire"}
        BY <1>2, <2>2 DEF TypeOK, Arrive, Goto, AfterHit
      <3>3. window' = window /\ admitted' = admitted
        BY <1>2, <2>2 DEF Arrive
      <3> QED
        BY <2>1, <3>1, <3>2, <3>3 DEF KeyIsMade
    <2>3. CASE Rpm # 0
      <3>1. \A q \in Request : q # r => pc'[q] = pc[q] /\ window'[q] = window[q]
        BY <1>2, <2>3 DEF TypeOK, Arrive, Goto
      <3>2. pc'[r] = "hit" /\ window'[r] = Now /\ admitted' = admitted /\ pc[r] = "idle"
        BY <1>2, <2>3 DEF TypeOK, Arrive, Goto
      <3> QED
        BY <1>0, <2>1, <3>1, <3>2 DEF KeyIsMade
    <2> QED
      BY <2>2, <2>3
  <1>3. ASSUME NEW r \in Request, Hit(r)
        PROVE  KeyIsMade'
    <2>1. \A q \in Request : q # r => pc'[q] = pc[q] /\ admitted'[q] = admitted[q]
      BY <1>3 DEF TypeOK, Hit, Goto, Admit
    <2>2. pc'[r] \notin {"idle", "hit"} /\ pc[r] = "hit"
      BY <1>3 DEF TypeOK, Hit, Goto, AfterHit
    <2>3. window' = window /\ Now' = Now
      BY <1>3 DEF Hit, Now
    <2> QED
      BY <2>1, <2>2, <2>3 DEF KeyIsMade
  <1>4. ASSUME NEW r \in Request, Step(r) \/ Break(r), ~Arrive(r), ~Hit(r)
        PROVE  KeyIsMade'
    <2>1. admitted' = admitted /\ window' = window /\ Now' = Now
      BY <1>4 DEF Step, TooLarge, HitExpire, TakeSlot, SlotExpire, GiveBack, Respond, Decr,
                  EndBody, Break, Now
    <2>2. \A q \in Request : pc'[q] \in {"idle", "hit", "hitExpire"} => pc'[q] = pc[q]
      BY <1>4 DEF TypeOK, Step, TooLarge, HitExpire, TakeSlot, SlotExpire, GiveBack, Respond,
                  Decr, EndBody, Break, Goto, AfterHit
    <2> QED
      BY <2>1, <2>2 DEF KeyIsMade
  <1>5. CASE Tick
    <2>1. admitted' = admitted /\ window' = window /\ pc' = pc
      BY <1>5 DEF Tick
    <2>0. clock \in Nat /\ clock' \in Nat /\ clock <= clock'
      BY <1>5, LimitsAreNatural DEF Tick, TypeOK
    <2>2. Now <= Now' /\ Now \in Nat /\ Now' \in Nat
      BY <2>0, MinutesInOrder, MinuteOf DEF Now
    <2>3. \A w \in Window : w <= Now => w <= Now'
      BY <2>2 DEF Window
    <2> QED
      BY <2>1, <2>3 DEF KeyIsMade
  <1> QED
    BY <1>1, <1>2, <1>3, <1>4, <1>5 DEF Next

(* Sets of requests are finite, and grow and shrink by one.                *)
LEMMA Counting ==
  ASSUME NEW S \in SUBSET Request, NEW r \in Request
  PROVE  /\ IsFiniteSet(S) /\ Cardinality(S) \in Nat
         /\ r \notin S => Cardinality(S \cup {r}) = Cardinality(S) + 1
         /\ r \in S => Cardinality(S \ {r}) = Cardinality(S) - 1
  <1>1. IsFiniteSet(S)
    BY FiniteRequests, FS_Subset
  <1> QED
    BY <1>1, FS_CardinalityType, FS_AddElement, FS_RemoveElement

(* A step that leaves the counter and the set of holders alone, and lets   *)
(* nobody through.                                                         *)
LEMMA SlotsUntouched ==
  ASSUME SlotInv, TypeOK', KeyIsMade', SlotsAreForStreams',
         UNCHANGED <<streams, leaked, lapsed>>,
         Holders' = Holders, LetThrough' = LetThrough
  PROVE  SlotInv'
  BY DEF SlotInv, NoPhantomSlot, SlotsAreCounted, CapHolds, Counted

(* Every action keeps the slots to streams.                                *)
LEMMA StreamsStep ==
  ASSUME TypeOK, SlotsAreForStreams, [Next]_vars
  PROVE  SlotsAreForStreams' /\ isStream' = isStream
  BY DEF TypeOK, SlotsAreForStreams, Slotted, vars, counters, Next, Step, Goto, AfterHit,
         TooLarge, Arrive, Hit, HitExpire, TakeSlot, SlotExpire, GiveBack, Respond, Decr,
         EndBody, Break, Tick, ghosts

(* How the holders change, whatever happens to the counter.                *)
LEMMA HoldersSame ==
  ASSUME TypeOK, SlotsAreForStreams, isStream' = isStream, NEW r \in Request,
         TooLarge(r) \/ Arrive(r) \/ Hit(r) \/ HitExpire(r) \/ SlotExpire(r) \/ Respond(r) \/ EndBody(r)
  PROVE  Holders' = Holders /\ LetThrough' = LetThrough
  <1>1. ASSUME NEW q \in Request
        PROVE  /\ (Slotted(q) /\ pc[q] \in Holding)' <=> Slotted(q) /\ pc[q] \in Holding
               /\ Slotted(q) => (pc'[q] # "giveBack" <=> pc[q] # "giveBack")
    BY DEF TypeOK, SlotsAreForStreams, Slotted, Holding, Goto, AfterHit, TooLarge, Arrive,
           Hit, HitExpire, SlotExpire, Respond, EndBody
  <1>2. Holders' = Holders
    BY <1>1 DEF Holders
  <1>3. \A q \in Holders : Slotted(q) /\ q \in Request
    BY DEF Holders
  <1> QED
    BY <1>1, <1>2, <1>3 DEF LetThrough

(* To take a slot makes a holder, let through or not.                      *)
LEMMA HoldersGrow ==
  ASSUME TypeOK, SlotsAreForStreams, isStream' = isStream, NEW r \in Request, TakeSlot(r)
  PROVE  /\ r \notin Holders /\ r \notin LetThrough
         /\ Holders' = Holders \cup {r}
         /\ LetThrough' = IF pc'[r] = "giveBack" THEN LetThrough ELSE LetThrough \cup {r}
  <1>1. pc[r] = "slot" /\ pc'[r] \in Holding /\ Slotted(r)
        /\ \A q \in Request \ {r} : pc'[q] = pc[q]
    BY DEF TypeOK, SlotsAreForStreams, TakeSlot, Goto, Holding
  <1>2. \A q \in Request : Slotted(q)' <=> Slotted(q)
    BY DEF Slotted
  <1>3. Holders' = Holders \cup {r} /\ r \notin Holders
    BY <1>1, <1>2 DEF Holders, Holding
  <1>4. \A q \in Holders : q \in Request /\ q # r
    BY <1>3 DEF Holders
  <1> QED
    BY <1>1, <1>3, <1>4 DEF LetThrough

(* To return a slot, or to fail, makes one holder less.                    *)
LEMMA HoldersShrink ==
  ASSUME TypeOK, SlotsAreForStreams, isStream' = isStream, NEW r \in Request,
         GiveBack(r) \/ Decr(r) \/ Break(r)
  PROVE  /\ Holders' = Holders \ {r} /\ LetThrough' = LetThrough \ {r}
         /\ GiveBack(r) \/ Decr(r) => r \in Holders
  <1>1. /\ pc'[r] \notin Holding
        /\ \A q \in Request \ {r} : pc'[q] = pc[q]
        /\ GiveBack(r) \/ Decr(r) => Slotted(r) /\ pc[r] \in Holding
    BY DEF TypeOK, SlotsAreForStreams, GiveBack, Decr, Break, Goto, Holding
  <1>2. \A q \in Request : Slotted(q)' <=> Slotted(q)
    BY DEF Slotted
  <1>3. Holders' = Holders \ {r}
    BY <1>1, <1>2 DEF Holders
  <1>4. \A q \in Holders : q \in Request
    BY DEF Holders
  <1> QED
    BY <1>1, <1>3, <1>4 DEF LetThrough, Holders

(* The sets that are counted.                                              *)
LEMMA HolderCounts ==
  ASSUME TypeOK
  PROVE  /\ Cardinality(Holders) \in Nat /\ Cardinality(LetThrough) \in Nat
         /\ Cardinality(LetThrough) <= Cardinality(Holders)
         /\ Counted \in Int /\ leaked \in Nat /\ MaxStreams \in Nat
         /\ Holders \in SUBSET Request /\ LetThrough \in SUBSET Request
         /\ LetThrough \in SUBSET Holders
  <1>1. Holders \in SUBSET Request /\ LetThrough \in SUBSET Holders
    BY DEF Holders, LetThrough
  <1>2. IsFiniteSet(Holders)
    BY <1>1, FiniteRequests, FS_Subset
  <1>3. /\ Cardinality(Holders) \in Nat /\ Cardinality(LetThrough) \in Nat
        /\ Cardinality(LetThrough) <= Cardinality(Holders)
    BY <1>1, <1>2, FS_Subset, FS_CardinalityType
  <1>4. Counted \in Int /\ leaked \in Nat /\ MaxStreams \in Nat
    BY LimitsAreNatural DEF TypeOK, Counted
  <1> QED
    BY <1>1, <1>3, <1>4

(* Every action keeps the invariant.                                       *)
LEMMA SlotStep ==
  ASSUME SlotInv, [Next]_vars
  PROVE  SlotInv'
  <1>0. /\ TypeOK /\ TypeOK' /\ KeyIsMade' /\ SlotsAreForStreams /\ SlotsAreForStreams'
        /\ isStream' = isStream
    BY LimitTypes, KeyStep, StreamsStep DEF SlotInv
  <1>1. CASE UNCHANGED vars
    BY <1>0, <1>1, SlotsUntouched DEF vars, counters, ghosts, Holders, LetThrough, Slotted
  <1>2. ASSUME NEW r \in Request,
               TooLarge(r) \/ Arrive(r) \/ Hit(r) \/ HitExpire(r) \/ SlotExpire(r) \/ Respond(r) \/ EndBody(r)
        PROVE  SlotInv'
    <2>1. Holders' = Holders /\ LetThrough' = LetThrough
      BY <1>0, <1>2, HoldersSame
    <2>2. UNCHANGED <<streams, leaked, lapsed>>
      BY <1>2 DEF TooLarge, Arrive, Hit, HitExpire, SlotExpire, Respond, EndBody, counters, ghosts
    <2> QED
      BY <1>0, <2>1, <2>2, SlotsUntouched
  <1>3. ASSUME NEW r \in Request, TakeSlot(r)
        PROVE  SlotInv'
    <2>1. /\ r \notin Holders /\ r \notin LetThrough
          /\ Holders' = Holders \cup {r}
          /\ LetThrough' = IF pc'[r] = "giveBack" THEN LetThrough ELSE LetThrough \cup {r}
      BY <1>0, <1>3, HoldersGrow
    <2>2. Cardinality(Holders') = Cardinality(Holders) + 1
      BY <1>0, <2>1, Counting, HolderCounts
    <2>3. Cardinality(LetThrough') <= Cardinality(Holders')
      BY <1>0, <2>1, HolderCounts, FiniteRequests, FS_Subset DEF Holders, LetThrough
    <2>4. streams' = Counted + 1 /\ leaked' = leaked /\ lapsed' = lapsed
      BY <1>3 DEF TakeSlot, ghosts
    <2>5. Counted' = Counted + 1
      BY <1>0, <2>4, HolderCounts, NoneIsNoNumber DEF Counted
    <2>6. pc'[r] # "giveBack" /\ MaxStreams > 0 => Counted' <= MaxStreams
      BY <1>0, <1>3, <2>4, <2>5, HolderCounts DEF TakeSlot, Goto, OverCap, TypeOK
    <2>7. NoPhantomSlot' /\ SlotsAreCounted'
      BY <1>0, <2>2, <2>4, <2>5, HolderCounts DEF SlotInv, NoPhantomSlot, SlotsAreCounted
    <2>8. ASSUME ~lapsed', MaxStreams > 0
          PROVE  Cardinality(LetThrough') <= MaxStreams
      <3>1. CASE pc'[r] = "giveBack"
        <4>1. LetThrough' = LetThrough
          BY <2>1, <3>1
        <4>2. Cardinality(LetThrough) <= MaxStreams
          BY <2>4, <2>8 DEF SlotInv, CapHolds
        <4> QED
          BY <4>1, <4>2
      <3>2. CASE pc'[r] # "giveBack"
        <4>1. Counted' <= MaxStreams
          BY <2>6, <2>8, <3>2
        <4>2. Cardinality(Holders') <= Counted'
          BY <2>7, <2>8 DEF SlotsAreCounted
        <4>3. Cardinality(Holders') \in Nat /\ Cardinality(LetThrough') \in Nat /\ Counted' \in Int
          <5>1. Cardinality(LetThrough \cup {r}) = Cardinality(LetThrough) + 1
            BY <1>0, <2>1, Counting, HolderCounts
          <5> QED
            BY <1>0, <2>1, <2>2, <2>5, <3>2, <5>1, HolderCounts
        <4> QED
          BY <1>0, <2>3, <4>1, <4>2, <4>3, HolderCounts
      <3> QED
        BY <3>1, <3>2
    <2> QED
      BY <1>0, <2>7, <2>8 DEF SlotInv, CapHolds
  <1>4. ASSUME NEW r \in Request, GiveBack(r) \/ Decr(r) \/ Break(r)
        PROVE  SlotInv'
    <2>1. /\ Holders' = Holders \ {r} /\ LetThrough' = LetThrough \ {r}
          /\ GiveBack(r) \/ Decr(r) => r \in Holders
      BY <1>0, <1>4, HoldersShrink
    <2>2. /\ r \in Holders => Cardinality(Holders') = Cardinality(Holders) - 1
          /\ r \notin Holders => Holders' = Holders
      BY <1>0, <2>1, Counting, HolderCounts
    <2>3. /\ r \in LetThrough => Cardinality(LetThrough') = Cardinality(LetThrough) - 1
          /\ r \notin LetThrough => LetThrough' = LetThrough
      BY <1>0, <2>1, Counting, HolderCounts
    <2>4. CASE GiveBack(r) \/ Decr(r)
      <3>1. streams' = Counted - 1 /\ leaked' = leaked /\ lapsed' = lapsed
        BY <2>4 DEF GiveBack, Return, Decr, ghosts
      <3>2. Counted' = Counted - 1
        BY <1>0, <3>1, HolderCounts, NoneIsNoNumber DEF Counted
      <3>3. Cardinality(Holders') = Cardinality(Holders) - 1
        BY <2>1, <2>2, <2>4
      <3>4. NoPhantomSlot' /\ SlotsAreCounted'
        BY <1>0, <3>1, <3>2, <3>3, HolderCounts DEF SlotInv, NoPhantomSlot, SlotsAreCounted
      <3>5. /\ Cardinality(LetThrough) \in Nat /\ MaxStreams \in Nat
            /\ Cardinality(LetThrough') <= Cardinality(LetThrough)
            /\ Cardinality(LetThrough') \in Int
        BY <1>0, <2>3, HolderCounts
      <3>6. CapHolds'
        BY <3>1, <3>5 DEF SlotInv, CapHolds
      <3> QED
        BY <1>0, <3>4, <3>6 DEF SlotInv
    <2>5. CASE Break(r)
      <3>1. /\ Counted' = Counted /\ lapsed' = lapsed
            /\ leaked' = leaked + (IF r \in Holders THEN 1 ELSE 0)
        BY <2>5 DEF Break, counters, Counted
      <3> QED
        BY <1>0, <2>2, <2>3, <3>1, HolderCounts
        DEF SlotInv, NoPhantomSlot, SlotsAreCounted, CapHolds
    <2> QED
      BY <1>4, <2>4, <2>5
  <1>5. CASE Tick
    <2>1. /\ Holders' = Holders /\ LetThrough' = LetThrough /\ leaked' = leaked
          /\ lapsed' = (lapsed \/ (streamsTtl = 1 /\ Holders # {}))
          /\ streams' = IF streamsTtl = 1 THEN None ELSE streams
      BY <1>5 DEF Tick, Holders, LetThrough, Slotted
    <2>2. CASE streamsTtl = 1
      <3>1. Counted' = 0
        BY <2>1, <2>2 DEF Counted
      <3>2. ~lapsed' => Cardinality(Holders) = 0 /\ ~lapsed
        BY <2>1, <2>2, FS_EmptySet
      <3> QED
        BY <1>0, <2>1, <3>1, <3>2, HolderCounts
        DEF SlotInv, NoPhantomSlot, SlotsAreCounted, CapHolds
    <2>3. CASE streamsTtl # 1
      <3>1. Counted' = Counted /\ (~lapsed' => ~lapsed)
        BY <2>1, <2>3 DEF Counted
      <3> QED
        BY <1>0, <2>1, <3>1 DEF SlotInv, NoPhantomSlot, SlotsAreCounted, CapHolds
    <2> QED
      BY <2>2, <2>3
  <1> QED
    BY <1>1, <1>2, <1>3, <1>4, <1>5 DEF Next, Step

(* The types of the initial states.                                        *)
LEMMA InitTypes ==
  ASSUME Init
  PROVE  TypeOK
  <1>1. clock \in 0 .. MaxClock /\ faults \in 0 .. MaxFaults /\ leaked \in Nat
    BY LimitsAreNatural DEF Init
  <1>2. hits \in [Window -> Nat] /\ hitsTtl \in [Window -> Nat]
    BY DEF Init
  <1>3. pc \in [Request -> PcValues] /\ isStream \in [Request -> BOOLEAN]
    BY DEF Init, PcValues
  <1>4. /\ admitted \in [Request -> (0 .. MaxClock) \cup {None}]
        /\ window \in [Request -> Window \cup {None}] /\ gone \subseteq Window
    BY DEF Init
  <1>5. streams \in Int \cup {None} /\ streamsTtl \in Nat /\ lapsed \in BOOLEAN
    BY DEF Init
  <1> QED
    BY <1>1, <1>2, <1>3, <1>4, <1>5 DEF TypeOK

(* The invariant holds of every reachable state.                           *)
THEOREM SlotsHold == Spec => []SlotInv
  <1>1. Init => SlotInv
    <2> SUFFICES ASSUME Init
                 PROVE  SlotInv
      OBVIOUS
    <2>1. TypeOK
      BY InitTypes
    <2>2. Holders = {} /\ LetThrough = {}
      BY DEF Init, Holders, LetThrough, Holding
    <2>3. Counted = 0 /\ leaked = 0
      BY DEF Init, Counted
    <2>4. SlotsAreForStreams /\ KeyIsMade
      BY DEF Init, SlotsAreForStreams, KeyIsMade
    <2> QED
      BY <2>1, <2>2, <2>3, <2>4, LimitsAreNatural, FS_EmptySet
      DEF SlotInv, NoPhantomSlot, SlotsAreCounted, CapHolds
  <1>2. SlotInv /\ [Next]_vars => SlotInv'
    BY SlotStep
  <1> QED
    BY <1>1, <1>2, PTL DEF Spec

(* No slot is lost but by a fault.                                         *)
THEOREM NoSlotIsLost == Spec => []NoPhantomSlot
  <1>1. SlotInv => NoPhantomSlot
    BY DEF SlotInv
  <1> QED
    BY <1>1, SlotsHold, PTL

(* Until the key lapses, the cap holds up to the start of the response.    *)
THEOREM CapIsKept == Spec => []CapBeforeResponse
  <1>1. ASSUME SlotInv
        PROVE  CapBeforeResponse
    <2> DEFINE Serving == {r \in Holders : pc[r] \in {"inner", "decr"}}
    <2>1. Serving \in SUBSET LetThrough /\ LetThrough \in SUBSET Request
      BY DEF LetThrough, Holders
    <2>2. IsFiniteSet(LetThrough)
      BY <2>1, FiniteRequests, FS_Subset
    <2>3. /\ Cardinality(Serving) <= Cardinality(LetThrough)
          /\ Cardinality(Serving) \in Nat /\ Cardinality(LetThrough) \in Nat
      BY <2>1, <2>2, FS_Subset, FS_CardinalityType
    <2> QED
      BY <1>1, <2>3, LimitsAreNatural DEF SlotInv, CapHolds, CapBeforeResponse
  <1> QED
    BY <1>1, SlotsHold, PTL
-----------------------------------------------------------------------------
(* The per-minute limit.                                                   *)

(* Up to the last tick, the counter of a minute outlives the minute.       *)
OutlivesItsMinute ==
  clock < MaxClock =>
    \A w \in Window : hitsTtl[w] > 0 => Minute * (w + 1) <= clock + hitsTtl[w]

(* So that minutes whose key has expired are over.                         *)
GoneAreOver == clock < MaxClock => \A w \in gone : w < Now

(* Until its key expires, a counter has counted all it let through.        *)
HitsAreCounted ==
  Rpm > 0 => \A w \in Window : w \notin gone => Cardinality(LetIn(w)) <= hits[w]

MinuteInv ==
  /\ TypeOK
  /\ KeyIsMade
  /\ OutlivesItsMinute
  /\ GoneAreOver
  /\ HitsAreCounted
  /\ MinuteCap

(* Those a counter let through can be counted.                             *)
LEMMA LetInCounts ==
  ASSUME NEW w
  PROVE  /\ LetIn(w) \in SUBSET Request /\ OnTime(w) \in SUBSET LetIn(w)
         /\ Cardinality(LetIn(w)) \in Nat /\ Cardinality(OnTime(w)) \in Nat
         /\ Cardinality(OnTime(w)) <= Cardinality(LetIn(w))
  <1>1. LetIn(w) \in SUBSET Request /\ OnTime(w) \in SUBSET LetIn(w)
    BY DEF LetIn, OnTime
  <1>2. IsFiniteSet(LetIn(w))
    BY <1>1, FiniteRequests, FS_Subset
  <1> QED
    BY <1>1, <1>2, FS_Subset, FS_CardinalityType

(* A step that keeps the clock, the counters of minutes and what was let   *)
(* through.                                                                *)
LEMMA MinutesUntouched ==
  ASSUME MinuteInv, TypeOK', KeyIsMade',
         UNCHANGED <<clock, hits, hitsTtl, admitted, gone>>,
         \A w \in Window : LetIn(w)' = LetIn(w)
  PROVE  MinuteInv'
  <1>1. \A w \in Window : OnTime(w)' = OnTime(w)
    BY DEF OnTime
  <1>2. HitsAreCounted' /\ MinuteCap'
    BY <1>1 DEF MinuteInv, HitsAreCounted, MinuteCap
  <1>3. GoneAreOver' /\ OutlivesItsMinute'
    BY DEF MinuteInv, GoneAreOver, OutlivesItsMinute, Now
  <1> QED
    BY <1>2, <1>3 DEF MinuteInv

(* The key of a minute is made: nobody is let through.                     *)
LEMMA ArriveKeepsTheMinute ==
  ASSUME MinuteInv, NEW r \in Request, Arrive(r), TypeOK', KeyIsMade'
  PROVE  MinuteInv'
  <1>1. UNCHANGED <<clock, hits, hitsTtl, admitted, gone>>
    BY DEF Arrive, counters, ghosts
  <1>2. admitted[r] = None /\ \A q \in Request : q # r => window'[q] = window[q]
    BY DEF MinuteInv, KeyIsMade, TypeOK, Arrive
  <1>3. \A w \in Window : LetIn(w)' = LetIn(w)
    BY <1>1, <1>2 DEF LetIn
  <1> QED
    BY <1>1, <1>3, MinutesUntouched

(* The check of one request counts it in its minute, or refuses it.        *)
LEMMA HitKeepsTheMinute ==
  ASSUME MinuteInv, NEW r \in Request, Hit(r), TypeOK', KeyIsMade'
  PROVE  MinuteInv'
  <1>v. PICK v \in Window : v = window[r]
    BY DEF MinuteInv, KeyIsMade, Hit
  <1>0. /\ v \in Nat /\ v <= Now /\ admitted[r] = None
        /\ clock \in 0 .. MaxClock /\ clock # None /\ Rpm \in Nat /\ r \notin LetIn(v)
    BY <1>v, NoneIsNoNumber, LimitsAreNatural
    DEF MinuteInv, KeyIsMade, TypeOK, Hit, Window, LetIn
  <1>1. /\ clock' = clock /\ Now' = Now /\ hitsTtl' = hitsTtl /\ gone' = gone
        /\ window' = window
    BY DEF Hit, Now, ghosts
  <1>2. OutlivesItsMinute' /\ GoneAreOver'
    BY <1>1 DEF MinuteInv, OutlivesItsMinute, GoneAreOver
  <1>3. /\ hits[v] \in Nat /\ hits'[v] = hits[v] + 1
        /\ \A w \in Window : w # v => hits'[w] = hits[w]
    BY <1>v, <1>0 DEF MinuteInv, TypeOK, Hit
  <1>4. CASE admitted' = admitted
    <2>1. \A w : LetIn(w)' = LetIn(w) /\ OnTime(w)' = OnTime(w)
      BY <1>1, <1>4 DEF LetIn, OnTime
    <2>2. MinuteCap'
      BY <1>1, <2>1 DEF MinuteInv, MinuteCap
    <2>3. ASSUME Rpm > 0, NEW w \in Window, w \notin gone
          PROVE  Cardinality(LetIn(w)) <= hits'[w]
      <3>1. Cardinality(LetIn(w)) <= hits[w] /\ Cardinality(LetIn(w)) \in Nat
        BY <2>3, LetInCounts DEF MinuteInv, HitsAreCounted
      <3> QED
        BY <1>3, <2>3, <3>1
    <2>4. HitsAreCounted'
      BY <1>1, <2>1, <2>3 DEF HitsAreCounted
    <2> QED
      BY <1>2, <2>2, <2>4 DEF MinuteInv
  <1>5. CASE admitted' = [admitted EXCEPT ![r] = clock] /\ (Rpm > 0 => hits'[v] <= Rpm)
    <2>0. admitted'[r] = clock /\ \A q \in Request : q # r => admitted'[q] = admitted[q]
      BY <1>5 DEF MinuteInv, TypeOK
    <2>1. ASSUME NEW w \in Window, w # v
          PROVE  LetIn(w)' = LetIn(w) /\ OnTime(w)' = OnTime(w)
      BY <1>v, <1>0, <1>1, <2>0, <2>1 DEF LetIn, OnTime
    <2>2. LetIn(v)' = LetIn(v) \cup {r}
      BY <1>v, <1>0, <1>1, <2>0 DEF LetIn
    <2>3. Cardinality(LetIn(v)') = Cardinality(LetIn(v)) + 1
      BY <1>0, <2>2, Counting, LetInCounts
    <2>4. Cardinality(OnTime(v)') <= Cardinality(LetIn(v)') /\ Cardinality(OnTime(v)') \in Nat
      <3>1. LetIn(v)' \in SUBSET Request /\ OnTime(v)' \in SUBSET LetIn(v)'
        BY DEF LetIn, OnTime
      <3>2. IsFiniteSet(LetIn(v)')
        BY <3>1, FiniteRequests, FS_Subset
      <3> QED
        BY <3>1, <3>2, FS_Subset, FS_CardinalityType
    <2>5. v \in gone => OnTime(v)' = OnTime(v)
      <3>1. SUFFICES ASSUME v \in gone
                     PROVE  OnTime(v)' = OnTime(v)
        OBVIOUS
      <3>2. ~(clock < MaxClock /\ clock \div Minute = v)
        BY <1>0, <3>1 DEF MinuteInv, GoneAreOver, Now
      <3>3. r \notin OnTime(v)'
        BY <1>v, <1>1, <2>0, <3>2 DEF OnTime
      <3>4. r \notin OnTime(v)
        BY <1>0 DEF OnTime
      <3>5. ASSUME NEW q, q # r
            PROVE  q \in OnTime(v)' <=> q \in OnTime(v)
        BY <1>v, <1>1, <2>0, <3>5 DEF OnTime, LetIn
      <3> QED
        BY <3>3, <3>4, <3>5
    <2>6. ASSUME Rpm > 0, v \notin gone
          PROVE  Cardinality(LetIn(v)') <= hits'[v] /\ Cardinality(LetIn(v)') <= Rpm
      <3>1. Cardinality(LetIn(v)) <= hits[v] /\ Cardinality(LetIn(v)) \in Nat
        BY <1>0, <2>6, LetInCounts DEF MinuteInv, HitsAreCounted
      <3> QED
        BY <1>0, <1>3, <1>5, <2>3, <2>6, <3>1
    <2>7. ASSUME Rpm > 0, NEW w \in Window, w \notin gone
          PROVE  Cardinality(LetIn(w)') <= hits'[w] /\ Cardinality(LetIn(w)') <= Rpm
      <3>1. CASE w = v
        BY <2>6, <2>7, <3>1
      <3>2. CASE w # v
        BY <1>3, <2>1, <2>7, <3>2 DEF MinuteInv, HitsAreCounted, MinuteCap
      <3> QED
        BY <3>1, <3>2
    <2>8. ASSUME Rpm > 0, NEW w \in Window
          PROVE  Cardinality(OnTime(w)') <= Rpm
      <3>1. CASE w = v /\ v \notin gone
        <4>1. Cardinality(OnTime(v)') <= Rpm
          BY <1>0, <2>3, <2>4, <2>6, <2>8, <3>1, LetInCounts
        <4> QED
          BY <3>1, <4>1
      <3>2. CASE w = v /\ v \in gone
        <4>1. Cardinality(OnTime(v)') <= Rpm
          BY <1>0, <2>5, <2>8, <3>2 DEF MinuteInv, MinuteCap
        <4> QED
          BY <3>2, <4>1
      <3>3. CASE w # v
        BY <2>1, <2>8, <3>3 DEF MinuteInv, MinuteCap
      <3> QED
        BY <3>1, <3>2, <3>3
    <2>9. HitsAreCounted' /\ MinuteCap'
      BY <1>1, <2>7, <2>8 DEF HitsAreCounted, MinuteCap
    <2> QED
      BY <1>2, <2>9 DEF MinuteInv
  <1> QED
    BY <1>v, <1>0, <1>4, <1>5 DEF Hit, Admit

(* The TTL is set in the minute that is counted, or later.                 *)
LEMMA TtlOutlivesTheMinute ==
  ASSUME MinuteInv, NEW r \in Request, HitExpire(r), TypeOK', KeyIsMade'
  PROVE  MinuteInv'
  <1> DEFINE m == window[r]
  <1>1. /\ m \in Window /\ m \in Nat /\ m <= Now /\ clock \in 0 .. MaxClock /\ clock \in Nat
        /\ hitsTtl \in [Window -> Nat] /\ MaxClock \in Nat
    BY LimitsAreNatural DEF MinuteInv, TypeOK, KeyIsMade, HitExpire, Window
  <1>2. /\ UNCHANGED <<clock, hits, admitted, window, gone>>
        /\ hitsTtl' = [hitsTtl EXCEPT ![m] = IF hits[m] = 0 THEN 0 ELSE Minute]
    BY DEF HitExpire, HitTtl, ghosts
  <1>3. Now \in Nat /\ Minute * Now <= clock /\ Minute * Now \in Nat /\ Minute \in Nat \ {0}
    BY <1>1, MinuteOf, LimitsAreNatural DEF Now
  <1> HIDE DEF m
  <1>4. Minute * (m + 1) <= clock + Minute
    <2> DEFINE n == Now
    <2>1. n \in Nat /\ m <= n /\ Minute * n <= clock
      BY <1>1, <1>3
    <2> HIDE DEF n
    <2>2. Minute * (m + 1) <= Minute * n + Minute
      BY <1>1, <1>3, <2>1
    <2>3. Minute * (m + 1) \in Nat /\ Minute * n \in Nat
      BY <1>1, <1>3, <2>1
    <2> QED
      BY <1>1, <1>3, <2>1, <2>2, <2>3
  <1>5. OutlivesItsMinute'
    <2>1. ASSUME clock < MaxClock, NEW w \in Window, hitsTtl'[w] > 0
          PROVE  Minute * (w + 1) <= clock + hitsTtl'[w]
      <3>1. CASE w = m
        <4>1. hitsTtl'[m] = Minute
          BY <1>1, <1>2, <2>1, <3>1
        <4> QED
          BY <1>4, <3>1, <4>1
      <3>2. CASE w # m
        BY <1>1, <1>2, <2>1, <3>2 DEF MinuteInv, OutlivesItsMinute
      <3> QED
        BY <3>1, <3>2
    <2> QED
      BY <1>2, <2>1 DEF OutlivesItsMinute
  <1>6. GoneAreOver' /\ HitsAreCounted' /\ MinuteCap'
    BY <1>2 DEF MinuteInv, GoneAreOver, HitsAreCounted, MinuteCap, OnTime, LetIn, Now
  <1> QED
    BY <1>5, <1>6 DEF MinuteInv

(* A counter that expires is that of a minute that is over.                *)
LEMMA TickKeepsTheMinute ==
  ASSUME MinuteInv, Tick, TypeOK', KeyIsMade'
  PROVE  MinuteInv'
  <1>1. /\ TypeOK /\ admitted' = admitted /\ window' = window
        /\ clock \in 0 .. MaxClock /\ MaxClock \in Nat
        /\ hitsTtl \in [Window -> Nat] /\ Minute \in Nat \ {0}
        /\ gone' = gone \cup {w \in Window : hitsTtl[w] = 1}
        /\ \A w \in Window : hits'[w] = IF hitsTtl[w] = 1 THEN 0 ELSE hits[w]
    BY LimitsAreNatural DEF MinuteInv, TypeOK, Tick
  <1>2. \A w : LetIn(w)' = LetIn(w) /\ OnTime(w)' = OnTime(w)
    BY <1>1 DEF LetIn, OnTime
  <1>3. HitsAreCounted' /\ MinuteCap'
    BY <1>1, <1>2 DEF MinuteInv, HitsAreCounted, MinuteCap
  <1>4. CASE clock = MaxClock
    <2>1. ~(clock' < MaxClock)
      BY <1>1, <1>4 DEF Tick
    <2> QED
      BY <1>3, <2>1 DEF MinuteInv, OutlivesItsMinute, GoneAreOver
  <1>5. CASE clock # MaxClock
    <2>1. clock < MaxClock /\ clock' = clock + 1
      BY <1>1, <1>5 DEF Tick
    <2>2. ASSUME NEW w \in Window
          PROVE  /\ w \in Nat
                 /\ Minute * (w + 1) \in Nat
                 /\ hitsTtl'[w] = IF hitsTtl[w] = 0 THEN 0 ELSE hitsTtl[w] - 1
                 /\ hitsTtl[w] > 0 => Minute * (w + 1) <= clock + hitsTtl[w]
                 /\ hitsTtl[w] \in Nat
      <3>1. w \in Nat
        BY DEF Window
      <3> QED
        BY <1>1, <2>1, <3>1 DEF MinuteInv, OutlivesItsMinute, Tick, CountDown
    <2>3. OutlivesItsMinute'
      <3>1. ASSUME NEW w \in Window, hitsTtl'[w] > 0
            PROVE  Minute * (w + 1) <= clock' + hitsTtl'[w]
        BY <1>1, <2>1, <2>2, <3>1
      <3> QED
        BY <3>1 DEF OutlivesItsMinute
    <2>4. Now <= Now' /\ Now \in Nat /\ Now' \in Nat
      BY <1>1, <2>1, MinutesInOrder, MinuteOf DEF Now
    <2>5. ASSUME NEW w \in Window, hitsTtl[w] = 1
          PROVE  w < Now'
      <3>1. Minute * (w + 1) <= clock'
        BY <2>1, <2>2, <2>5
      <3>2. clock' < Minute * (Now' + 1) /\ Minute * (Now' + 1) \in Nat
        BY <1>1, <2>1, <2>4, MinuteOf DEF Now
      <3>6. Minute * (w + 1) < Minute * (Now' + 1)
        BY <1>1, <2>1, <2>2, <3>1, <3>2
      <3> DEFINE b == Now'
      <3>3. b \in Nat /\ w \in Nat /\ Minute * (w + 1) < Minute * (b + 1)
        BY <2>2, <2>4, <3>6
      <3> HIDE DEF b
      <3>4. w + 1 < b + 1
        BY <1>1, <3>3
      <3>5. w < b
        BY <3>3, <3>4
      <3> QED
        BY <3>5 DEF b
    <2>6. GoneAreOver'
      <3>1. ASSUME NEW w \in gone
            PROVE  w < Now'
        <4>1. w < Now /\ w \in Nat
          BY <2>1, <3>1 DEF MinuteInv, GoneAreOver, TypeOK, Window
        <4> QED
          BY <2>4, <4>1
      <3> QED
        BY <1>1, <2>5, <3>1 DEF GoneAreOver
    <2> QED
      BY <1>3, <2>3, <2>6 DEF MinuteInv
  <1> QED
    BY <1>4, <1>5

(* The invariant of the minutes holds of every reachable state.            *)
THEOREM MinutesHold == Spec => []MinuteInv
  <1>1. Init => MinuteInv
    <2> SUFFICES ASSUME Init
                 PROVE  MinuteInv
      OBVIOUS
    <2>1. TypeOK
      BY InitTypes
    <2>2. \A w : LetIn(w) = {} /\ OnTime(w) = {}
      BY DEF Init, LetIn, OnTime
    <2>3. \A w : Cardinality(LetIn(w)) = 0 /\ Cardinality(OnTime(w)) = 0
      BY <2>2, FS_EmptySet
    <2>4. KeyIsMade /\ OutlivesItsMinute /\ GoneAreOver
      BY DEF Init, KeyIsMade, OutlivesItsMinute, GoneAreOver
    <2>5. HitsAreCounted
      BY <2>3 DEF Init, HitsAreCounted
    <2>6. MinuteCap
      BY <2>3, LimitsAreNatural DEF MinuteCap
    <2> QED
      BY <2>1, <2>4, <2>5, <2>6 DEF MinuteInv
  <1>2. ASSUME MinuteInv, [Next]_vars
        PROVE  MinuteInv'
    <2>1. TypeOK' /\ KeyIsMade'
      BY <1>2, LimitTypes, KeyStep DEF MinuteInv
    <2>2. ASSUME NEW r \in Request, Step(r) \/ Break(r), ~Arrive(r), ~Hit(r), ~HitExpire(r)
          PROVE  UNCHANGED <<clock, hits, hitsTtl, admitted, window, gone>>
      BY <2>2 DEF Step, TooLarge, TakeSlot, SlotExpire, GiveBack, Respond, Decr, EndBody,
                  Break, counters, ghosts
    <2>3. UNCHANGED vars => UNCHANGED <<clock, hits, hitsTtl, admitted, window, gone>>
      BY DEF vars, counters, ghosts
    <2>4. ASSUME UNCHANGED <<clock, hits, hitsTtl, admitted, window, gone>>
          PROVE  MinuteInv'
      <3>1. \A w \in Window : LetIn(w)' = LetIn(w)
        BY <2>4 DEF LetIn
      <3> QED
        BY <1>2, <2>1, <2>4, <3>1, MinutesUntouched
    <2> QED
      BY <1>2, <2>1, <2>2, <2>3, <2>4, ArriveKeepsTheMinute, HitKeepsTheMinute,
         TtlOutlivesTheMinute, TickKeepsTheMinute DEF Next, Step
  <1> QED
    BY <1>1, <1>2, PTL DEF Spec

(* The keys and locals of dispatch are always of their types.  The slot    *)
(* counter is an integer there: a DECR on a key that lapsed leaves -1.     *)
THEOREM LimitTypeCorrect == Spec => []TypeOK
  <1>1. MinuteInv => TypeOK
    BY DEF MinuteInv
  <1> QED
    BY <1>1, MinutesHold, PTL

(* However long the INCR of a request is on its way, a minute's counter    *)
(* lets at most Rpm requests through whose INCR is executed within it, and *)
(* at most Rpm in all until its key expires.                               *)
THEOREM MinuteCapIsKept == Spec => []MinuteCap
  <1>1. MinuteInv => MinuteCap
    BY DEF MinuteInv
  <1> QED
    BY <1>1, MinutesHold, PTL
=============================================================================
