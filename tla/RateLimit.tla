------------------------------ MODULE RateLimit ------------------------------
(***************************************************************************)
(* RateLimitMiddleware.dispatch (middleware/rate_limit.py) for the requests*)
(* of one API key: all its counters are per key.  Every Redis command is a *)
(* step; replicas differ in nothing here, so a request is just a coroutine *)
(* that may die with its process.                                          *)
(*                                                                         *)
(* call_next is Starlette's (BaseHTTPMiddleware): it returns when the      *)
(* response has started; the body of an SSE response is sent after         *)
(* dispatch has returned.                                                  *)
(*                                                                         *)
(* As in SessionManager, a name with a slip in it (...Forgotten, ...Short) *)
(* is a variant no specification uses.                                     *)
(***************************************************************************)
EXTENDS Integers, FiniteSets

CONSTANTS
  Request,     \* requests carrying the key
  None,        \* no time yet, an absent key
  Rpm,         \* settings.rate_limit_rpm; 0 disables the check
  MaxStreams,  \* settings.max_concurrent_streams; 0 disables the check
  Minute,      \* ticks in the window of 60 seconds
  StreamTtl,   \* ticks of the safety TTL of 300 seconds
  MaxClock,    \* bound: no request arrives at this tick or later
  MaxFaults    \* bound: how many Redis errors and dead processes there are

ASSUME LimitsAreNatural ==
  /\ Rpm \in Nat /\ MaxStreams \in Nat
  /\ Minute \in Nat \ {0} /\ StreamTtl \in Nat \ {0}
  /\ MaxClock \in Nat /\ MaxFaults \in Nat
ASSUME NoneIsNoNumber == None \notin Int
ASSUME FiniteRequests == IsFiniteSet(Request)

VARIABLES
  clock,
  hits,       \* Redis: window index -> the counter of that minute
  hitsTtl,    \* Redis: ticks until that key expires; 0 is no expiry
  streams,    \* Redis: the counter of streams, or None when the key is absent
  streamsTtl, \* Redis: ticks until that key expires; 0 is no expiry
  pc,
  isStream,   \* does the path count as a stream
  window,     \* the minute whose counter the request is to INCR, or None
  admitted,   \* when that INCR let the request through, or None
  faults,     \* faults so far
  leaked,     \* slots taken by requests that died or failed before DECR
  lapsed,     \* has the stream key ever expired under an open slot
  gone        \* the minutes whose key has ever expired

counters == <<hits, hitsTtl, streams, streamsTtl>>
\* What the program does not keep: only bounds and properties read it.
ghosts == <<faults, leaked, lapsed, gone>>
vars == <<clock, counters, pc, isStream, window, admitted, ghosts>>

Window == 0 .. (MaxClock \div Minute)
Now == clock \div Minute

Holding == {"slotExpire", "giveBack", "inner", "decr"}
PcValues == Holding \cup {"idle", "hit", "hitExpire", "slot", "body", "done"}
Slotted(r) == isStream[r] /\ MaxStreams > 0
Holders == {r \in Request : Slotted(r) /\ pc[r] \in Holding}

Init ==
  /\ clock = 0
  /\ hits = [w \in Window |-> 0]
  /\ hitsTtl = [w \in Window |-> 0]
  /\ streams = None
  /\ streamsTtl = 0
  /\ pc = [r \in Request |-> "idle"]
  /\ isStream \in [Request -> BOOLEAN]
  /\ window = [r \in Request |-> None]
  /\ admitted = [r \in Request |-> None]
  /\ faults = 0
  /\ leaked = 0
  /\ lapsed = FALSE
  /\ gone = {}

Goto(r, label) == pc' = [pc EXCEPT ![r] = label]

(* After the per-minute check: only streams take a slot.                   *)
AfterHit(r) == IF Slotted(r) THEN "slot" ELSE "inner"

Admit(r) == admitted' = [admitted EXCEPT ![r] = clock]

(* A body over the limit is refused before anything is counted.            *)
TooLarge(r) ==
  /\ pc[r] = "idle"
  /\ clock < MaxClock
  /\ Goto(r, "done")
  /\ UNCHANGED <<clock, counters, isStream, window, admitted, ghosts>>

(* The body is small enough: the key of this minute is made, and INCR is   *)
(* sent to it, unless there is no limit per minute.                        *)
Arrive(r) ==
  /\ pc[r] = "idle"
  /\ clock < MaxClock
  /\ Goto(r, IF Rpm = 0 THEN AfterHit(r) ELSE "hit")
  /\ window' = IF Rpm = 0 THEN window ELSE [window EXCEPT ![r] = Now]
  /\ UNCHANGED <<clock, counters, isStream, admitted, ghosts>>

(* Redis executes the INCR of the per-minute check, however long after its *)
(* key was made: in the same minute, in a later one, or when the key has   *)
(* expired and is made anew.  The first INCR goes on to set the TTL.       *)
Hit(r) ==
  /\ pc[r] = "hit"
  /\ hits' = [hits EXCEPT ![window[r]] = @ + 1]
  /\ \/ /\ hits'[window[r]] = 1
        /\ Admit(r)
        /\ Goto(r, "hitExpire")
     \/ /\ hits'[window[r]] \in 2 .. Rpm
        /\ Admit(r)
        /\ Goto(r, AfterHit(r))
     \/ /\ hits'[window[r]] \notin 1 .. Rpm
        /\ Goto(r, "done")
        /\ UNCHANGED admitted
  /\ UNCHANGED <<clock, hitsTtl, streams, streamsTtl, isStream, window, ghosts>>

HitTtlShort == Minute - 1
HitTtl == Minute

(* EXPIRE does nothing to a key that has expired since the INCR.           *)
HitExpire(r) ==
  /\ pc[r] = "hitExpire"
  /\ hitsTtl' = [hitsTtl EXCEPT ![window[r]] = IF hits[window[r]] = 0 THEN 0 ELSE HitTtl]
  /\ Goto(r, AfterHit(r))
  /\ UNCHANGED <<clock, hits, streams, streamsTtl, isStream, window, admitted, ghosts>>

OverCapLate(n) == n > MaxStreams + 1
OverCap(n) == n > MaxStreams

(* To INCR and DECR an absent key counts 0; the new key has no TTL.        *)
Counted == IF streams = None THEN 0 ELSE streams

(* INCR of the stream counter.                                             *)
TakeSlot(r) ==
  /\ pc[r] = "slot"
  /\ streams' = Counted + 1
  /\ \/ streams' = 1 /\ Goto(r, "slotExpire")
     \/ streams' # 1 /\ OverCap(streams') /\ Goto(r, "giveBack")
     \/ streams' # 1 /\ ~OverCap(streams') /\ Goto(r, "inner")
  /\ UNCHANGED <<clock, hits, hitsTtl, streamsTtl, isStream, window, admitted, ghosts>>

(* EXPIRE does nothing to a key that has expired since the INCR.           *)
SlotExpire(r) ==
  /\ pc[r] = "slotExpire"
  /\ streamsTtl' = IF streams = None THEN 0 ELSE StreamTtl
  /\ Goto(r, "inner")
  /\ UNCHANGED <<clock, hits, hitsTtl, streams, isStream, window, admitted, ghosts>>

ReturnForgotten(r) == UNCHANGED streams
Return(r) == streams' = Counted - 1

GiveBack(r) ==
  /\ pc[r] = "giveBack"
  /\ Return(r)
  /\ Goto(r, "done")
  /\ UNCHANGED <<clock, hits, hitsTtl, streamsTtl, isStream, window, admitted, ghosts>>

(* call_next returns: the response has started, or the handler has raised. *)
Respond(r) ==
  /\ pc[r] = "inner"
  /\ Goto(r, IF Slotted(r) THEN "decr" ELSE "body")
  /\ UNCHANGED <<clock, counters, isStream, window, admitted, ghosts>>

(* The finally clause; then the body is sent, if there is one.             *)
Decr(r) ==
  /\ pc[r] = "decr"
  /\ streams' = Counted - 1
  /\ Goto(r, "body")
  /\ UNCHANGED <<clock, hits, hitsTtl, streamsTtl, isStream, window, admitted, ghosts>>

EndBody(r) ==
  /\ pc[r] = "body"
  /\ Goto(r, "done")
  /\ UNCHANGED <<clock, counters, isStream, window, admitted, ghosts>>

(* A Redis error, a cancelled task or a dead process between two commands: *)
(* the stream slot, if taken and not yet returned, is never returned.  An  *)
(* error of call_next itself is Respond: the finally clause runs.          *)
Break(r) ==
  /\ faults < MaxFaults
  /\ pc[r] \notin {"idle", "done"}
  /\ faults' = faults + 1
  /\ leaked' = leaked + (IF r \in Holders THEN 1 ELSE 0)
  /\ Goto(r, "done")
  /\ UNCHANGED <<clock, counters, isStream, window, admitted, lapsed, gone>>

CountDownPastZero(n) == n - 1
CountDown(n) == IF n = 0 THEN 0 ELSE n - 1

(* Keys whose TTL runs out are gone.  The clock stops at its bound, the    *)
(* TTLs go on.                                                             *)
Tick ==
  /\ clock' = IF clock = MaxClock THEN clock ELSE clock + 1
  /\ hits' = [w \in Window |-> IF hitsTtl[w] = 1 THEN 0 ELSE hits[w]]
  /\ hitsTtl' = [w \in Window |-> CountDown(hitsTtl[w])]
  /\ streams' = IF streamsTtl = 1 THEN None ELSE streams
  /\ streamsTtl' = CountDown(streamsTtl)
  /\ lapsed' = (lapsed \/ (streamsTtl = 1 /\ Holders # {}))
  /\ gone' = gone \cup {w \in Window : hitsTtl[w] = 1}
  /\ UNCHANGED <<pc, isStream, window, admitted, faults, leaked>>

Step(r) ==
  \/ TooLarge(r)
  \/ Arrive(r)
  \/ Hit(r)
  \/ HitExpire(r)
  \/ TakeSlot(r)
  \/ SlotExpire(r)
  \/ GiveBack(r)
  \/ Respond(r)
  \/ Decr(r)
  \/ EndBody(r)

Next ==
  \/ \E r \in Request : Step(r)
  \/ \E r \in Request : Break(r)
  \/ Tick

Spec == Init /\ [][Next]_vars

(* Redis answers, handlers start their responses and time passes; nothing  *)
(* has to arrive or to fail, and a stream may never end.                   *)
FairSpec ==
  /\ Spec
  /\ WF_vars(Tick)
  /\ \A r \in Request :
       WF_vars(Hit(r) \/ HitExpire(r) \/ TakeSlot(r) \/ SlotExpire(r)
               \/ GiveBack(r) \/ Respond(r) \/ Decr(r))
-----------------------------------------------------------------------------
(* Every variable has its type (the locals and keys of dispatch).          *)
TypeOK ==
  /\ clock \in 0 .. MaxClock
  /\ hits \in [Window -> Nat] /\ hitsTtl \in [Window -> Nat]
  /\ streams \in Int \cup {None} /\ streamsTtl \in Nat
  /\ pc \in [Request -> PcValues]
  /\ isStream \in [Request -> BOOLEAN]
  /\ window \in [Request -> Window \cup {None}]
  /\ admitted \in [Request -> (0 .. MaxClock) \cup {None}]
  /\ faults \in 0 .. MaxFaults
  /\ leaked \in Nat
  /\ lapsed \in BOOLEAN
  /\ gone \subseteq Window

(* No slot is lost: the counter is never above the requests that hold one, *)
(* plus those that failed before they could return it; a request refused   *)
(* for too many streams gives its slot back.                               *)
NoPhantomSlot == Counted <= Cardinality(Holders) + leaked

(* As long as the stream key has not expired under an open slot, at most   *)
(* MaxStreams requests at a time are between the check and the start of    *)
(* their response.                                                         *)
CapBeforeResponse ==
  ~lapsed /\ MaxStreams > 0 =>
    Cardinality({r \in Holders : pc[r] \in {"inner", "decr"}}) <= MaxStreams

(* Those the counter of minute w let through, and those among them whose   *)
(* INCR was executed within that minute (the clock tells up to its bound). *)
LetIn(w) == {r \in Request : admitted[r] # None /\ window[r] = w}
OnTime(w) ==
  {r \in LetIn(w) : admitted[r] < MaxClock /\ admitted[r] \div Minute = w}

(* The counter of a minute lets at most Rpm requests through whose INCR is *)
(* executed within the minute, whatever late ones are sent to it or to the *)
(* counters of earlier minutes: its key does not expire before the minute  *)
(* is over.  Until the key does, the late ones are among these Rpm.        *)
MinuteCap ==
  Rpm > 0 =>
    \A w \in Window :
      /\ Cardinality(OnTime(w)) <= Rpm
      /\ w \notin gone => Cardinality(LetIn(w)) <= Rpm

(* "Max concurrent SSE streams per API key": at most MaxStreams responses  *)
(* stream at a time.                                                       *)
StreamCap ==
  Cardinality({r \in Request : isStream[r] /\ pc[r] = "body"}) <= MaxStreams

(* "Safety TTL: self-cleans if decrements are missed": the counter gets    *)
(* back to nothing once no request holds a slot.                           *)
CounterSelfCleans ==
  (Holders = {} /\ Counted > 0) ~> (Counted <= 0 \/ Holders # {})
=============================================================================
