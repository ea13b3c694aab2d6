---------------------------- MODULE Conversation ----------------------------
(***************************************************************************)
(* What the session service promises about one conversation, whichever     *)
(* replica serves a message and whatever fails on the way: a session is    *)
(* opened once, empty; every message that is stored is stored once, after  *)
(* everything stored before it; and a session that is gone stays gone.     *)
(* SessionManager implements it (ImplementsConversation, SessionProperties).*)
(***************************************************************************)
EXTENDS Integers, Sequences

CONSTANTS Session, Message, None

VARIABLES
  conv,    \* conv[s]: the messages stored for s, in order, or None
  opened   \* the sessions that were ever opened

Init ==
  /\ opened \in SUBSET Session
  /\ conv = [s \in Session |-> IF s \in opened THEN <<>> ELSE None]

Open(s) ==
  /\ s \notin opened
  /\ opened' = opened \cup {s}
  /\ conv' = [conv EXCEPT ![s] = <<>>]

Extend(s, m) ==
  /\ conv[s] # None
  /\ \A i \in 1..Len(conv[s]) : conv[s][i] # m
  /\ conv' = [conv EXCEPT ![s] = Append(@, m)]
  /\ UNCHANGED opened

(* Expiry is one tick of the clock: several sessions may go at once.       *)
Drop(S) ==
  /\ conv' = [s \in Session |-> IF s \in S THEN None ELSE conv[s]]
  /\ UNCHANGED opened

Next ==
  \/ \E s \in Session : Open(s)
  \/ \E s \in Session, m \in Message : Extend(s, m)
  \/ \E S \in SUBSET Session : Drop(S)

Spec == Init /\ [][Next]_<<conv, opened>>
=============================================================================
