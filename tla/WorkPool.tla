------------------------------ MODULE WorkPool ------------------------------
(***************************************************************************)
(* What the client of a fiber_pool (Boost/Fiber/fiber_pool.hpp) may rely   *)
(* on: submit() is accepted until close(), every accepted work runs to its *)
(* end, and join() returns when all of them have. Threads, fibers, queues  *)
(* and schedulers do not appear.                                           *)
(***************************************************************************)
CONSTANT Works

VARIABLES
  pool,   \* "open", "closed" or "joined"
  work    \* "new", "accepted", "rejected" or "done"

vars == <<pool, work>>

Init ==
  /\ pool = "open"
  /\ work = [w \in Works |-> "new"]

Accept(w) ==
  /\ pool = "open" /\ work[w] = "new"
  /\ work' = [work EXCEPT ![w] = "accepted"]
  /\ UNCHANGED pool

Reject(w) ==
  /\ pool # "open" /\ work[w] = "new"
  /\ work' = [work EXCEPT ![w] = "rejected"]
  /\ UNCHANGED pool

Complete(w) ==
  /\ work[w] = "accepted"
  /\ work' = [work EXCEPT ![w] = "done"]
  /\ UNCHANGED pool

Close ==
  /\ pool = "open"
  /\ pool' = "closed"
  /\ UNCHANGED work

Join ==
  /\ pool = "closed"
  /\ \A w \in Works : work[w] # "accepted"
  /\ pool' = "joined"
  /\ UNCHANGED work

Next ==
  \/ \E w \in Works : Accept(w) \/ Reject(w) \/ Complete(w)
  \/ Close \/ Join

Spec == Init /\ [][Next]_vars

(* An accepted work is eventually completed; nobody has to close or join.  *)
FairSpec == Spec /\ \A w \in Works : WF_vars(Complete(w))
=============================================================================
