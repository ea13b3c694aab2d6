------------------------------ MODULE MCSession ------------------------------
(* Small instances of SessionManager; requests and replicas are            *)
(* interchangeable.                                                        *)
EXTENDS SessionProperties, TLC

Interchangeable ==
  Permutations(Message) \cup Permutations(Replica) \cup Permutations(Session)

(* What the rest of a behaviour, and the properties, can depend on: not    *)
(* the locals of a coroutine that has ended, nor an agent nobody refers to.*)
Alive(r) == pc[r] \notin {"idle", "release", "done"}
Reachable(a) ==
  \/ \E p \in Replica, s \in Session : instances[p][s] = a
  \/ \E r \in DOMAIN agentOf : Alive(r) /\ agentOf[r] = a

Live ==
  << redis, instances, pc, target, reply, ghost,
     {a \in closed : Reachable(a)},
     [a \in AgentId |-> IF Reachable(a) THEN agents[a] ELSE None],
     [r \in Requests |-> IF pc[r] = "done" THEN None ELSE home[r]],
     [r \in Message |-> IF Alive(r) THEN data[r] ELSE None],
     [r \in DOMAIN agentOf |-> IF Alive(r) THEN agentOf[r] ELSE None],
     [r \in Message |-> IF pc[r] = "run" THEN timer[r] ELSE 0],
     [r \in Message |-> IF pc[r] \in Critical THEN slack[r] ELSE 0] >>
=============================================================================
