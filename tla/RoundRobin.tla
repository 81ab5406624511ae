----------------------------- MODULE RoundRobin -----------------------------
(***************************************************************************)
(* The default Boost.Fiber scheduling algorithm, which fiber_pool::run     *)
(* leaves in place for sched::round_robin. It is not part of the           *)
(* repository: the module states what run() relies on, one private queue   *)
(* per thread in arrival order, no migration, and a thread that sleeps     *)
(* whenever its queue is empty.                                            *)
(***************************************************************************)
EXTENDS Sequences

CONSTANTS
  Threads,   \* the worker threads of the pool
  NoCtx      \* nullptr

VARIABLES
  rqueue,    \* ready queue of each thread
  flag       \* flag_ of each thread

Awakened(t, ctx) == rqueue' = [rqueue EXCEPT ![t] = Append(@, ctx)]

PickNext(t, ctx) ==
  \/ /\ rqueue[t] # << >>
     /\ ctx = Head(rqueue[t])
     /\ rqueue' = [rqueue EXCEPT ![t] = Tail(@)]
  \/ /\ rqueue[t] = << >>
     /\ ctx = NoCtx
     /\ UNCHANGED rqueue

SuspendUntil(t) == flag[t] /\ flag' = [flag EXCEPT ![t] = FALSE]

Notify(S) == flag' = [t \in Threads |-> flag[t] \/ t \in S]
=============================================================================
