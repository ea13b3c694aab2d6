------------------------------- MODULE MCServer -------------------------------
(* A small instance of Lifecycle.                                          *)
EXTENDS Lifecycle, TLC

CONSTANTS r1, r2

Mixed ==
  r1 :> {"stream", "a2aStream"}
  @@ r2 :> {"send", "a2aSend", "create", "delete", "ready"}

(* What the rest of a behaviour can depend on: of a request that is over   *)
(* only the agent it may have lost and what the invariants ask of it, of   *)
(* its own session only what it will still use.  The locals TypeOK no      *)
(* longer sees keep the type they had.                                     *)
Uses(r) == /\ pc[r] \in {"resolve", "handler", "body"}
           /\ target[r] = r
Local(r) ==
  CASE pc[r] = "idle" -> <<>>
    [] pc[r] = "raised" -> <<Metered(r), call[r] = "orphan", target[r], popped[r]>>
    [] pc[r] = "done" -> <<call[r] = "orphan", target[r],
                           IF status[r] = 500 THEN popped[r] ELSE None,
                           Told(r) = "success", IsWhole(r), recorded[r] = status[r]>>
    [] OTHER -> <<kind[r], target[r], call[r], outcome[r], produced[r], events[r],
                  status[r], code[r], popped[r], r \in saved>>

Live ==
  << life, pc, active, offered,
     Shared \in stored, lock[Shared], instances, built \ closed,
     [r \in Request |-> Local(r)],
     [r \in Request |->
        IF Uses(r) THEN <<r \in stored, lock[r]>> ELSE <<>>] >>
=============================================================================
