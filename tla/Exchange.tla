------------------------------- MODULE Exchange -------------------------------
(***************************************************************************)
(* What an API process promises whoever sends it a message: one message at *)
(* a time works on a session; a message is kept only while it does, and    *)
(* only before its client has been answered; success means it was kept and *)
(* no longer blocks its session, a refusal that it was not and never will  *)
(* be; after a failure the client knows nothing.                           *)
(***************************************************************************)
CONSTANTS Request, Session, None

VARIABLES
  holder,  \* session -> the message at work on it, or None
  kept,    \* the messages whose exchange is in the stored history
  answer   \* message -> what its client has been told in the end

vars == <<holder, kept, answer>>

Init ==
  /\ holder = [s \in Session |-> None]
  /\ kept = {}
  /\ answer = [r \in Request |-> "none"]

Take(r, s) ==
  /\ holder[s] = None
  /\ answer[r] = "none"
  /\ holder' = [holder EXCEPT ![s] = r]
  /\ UNCHANGED <<kept, answer>>

Keep(r, s) ==
  /\ holder[s] = r
  /\ answer[r] = "none"
  /\ kept' = kept \cup {r}
  /\ UNCHANGED <<holder, answer>>

LetGo(s) ==
  /\ holder' = [holder EXCEPT ![s] = None]
  /\ UNCHANGED <<kept, answer>>

Tell(r, told) ==
  /\ answer[r] = "none"
  /\ told = "success" => r \in kept /\ \A s \in Session : holder[s] # r
  /\ told = "refusal" => r \notin kept
  /\ answer' = [answer EXCEPT ![r] = told]
  /\ UNCHANGED <<holder, kept>>

Next ==
  \/ \E r \in Request, s \in Session : Take(r, s) \/ Keep(r, s)
  \/ \E s \in Session : LetGo(s)
  \/ \E r \in Request, told \in {"success", "refusal", "failure"} : Tell(r, told)

Spec == Init /\ [][Next]_vars
=============================================================================
