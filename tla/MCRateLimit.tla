----------------------------- MODULE MCRateLimit -----------------------------
(* Small instances of RateLimit; requests are interchangeable.             *)
EXTENDS RateLimit, TLC

Interchangeable == Permutations(Request)

(* What the rest of a behaviour, and the properties, can depend on: of the *)
(* time at which a request was let through only whether it was in time, of *)
(* the minute only what is to be sent to Redis or was let through, and not *)
(* what a request was that is done.                                        *)
Live ==
  << clock, counters, pc, ghosts,
     [w \in Window |-> <<LetIn(w), OnTime(w)>>],
     [r \in Request |-> IF pc[r] \in {"hit", "hitExpire"} THEN window[r] ELSE None],
     {r \in Request : isStream[r] /\ pc[r] # "done"} >>
=============================================================================
