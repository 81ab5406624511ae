-------------------------- MODULE PooledSharedWork --------------------------
(***************************************************************************)
(* The scheduling algorithm boost::fibers::algo::pooled_shared_work        *)
(* (Boost/Fiber/pooled_shared_work.hpp): every worker thread of a pool     *)
(* keeps its own two pinned contexts (main and dispatcher) in a private    *)
(* queue, and all the threads share one queue of runnable fibers.          *)
(*                                                                         *)
(* Each operation of the class is an action on the three variables; the    *)
(* Boost.Fiber runtime that calls them is in module FiberPool.             *)
(***************************************************************************)
EXTENDS Sequences

CONSTANTS
  Threads,   \* the worker threads of the pool
  Pinned,    \* the contexts that never migrate: main and dispatcher contexts
  NoCtx      \* nullptr

VARIABLES
  rqueue,    \* pool_ctx::rqueue_, shared and protected by rqueue_mtx_
  lqueue,    \* lqueue_ of each thread
  flag,      \* flag_ of each thread, protected by its mtx_
  suspend    \* pool_ctx::suspend_, never modified

(* create_pool_ctx()                                                       *)
CreatePoolCtx == rqueue = << >>

(* Wrong on purpose: awakened() without the test for a pinned context.     *)
AwakenedUnpinned(t, ctx) == rqueue' = Append(rqueue, ctx) /\ UNCHANGED lqueue

(* A pinned context goes to the queue of its thread, any other context is  *)
(* detached from the thread and goes to the end of the shared queue.       *)
Awakened(t, ctx) ==
  IF ctx \in Pinned
  THEN /\ lqueue' = [lqueue EXCEPT ![t] = Append(@, ctx)]
       /\ UNCHANGED rqueue
  ELSE /\ rqueue' = Append(rqueue, ctx)
       /\ UNCHANGED lqueue

(* pick_next() of thread t returns ctx: the shared queue comes first, the  *)
(* private one is looked at only when the shared one is empty.             *)
PickNext(t, ctx) ==
  \/ /\ rqueue # << >>
     /\ ctx = Head(rqueue)
     /\ rqueue' = Tail(rqueue)
     /\ UNCHANGED lqueue
  \/ /\ rqueue = << >>
     /\ lqueue[t] # << >>
     /\ ctx = Head(lqueue[t])
     /\ lqueue' = [lqueue EXCEPT ![t] = Tail(@)]
     /\ UNCHANGED rqueue
  \/ /\ rqueue = << >>
     /\ lqueue[t] = << >>
     /\ ctx = NoCtx
     /\ UNCHANGED <<rqueue, lqueue>>

HasReadyFibers(t) == rqueue # << >> \/ lqueue[t] # << >>

(* suspend_until(max) of thread t returns: at once when the pool busy      *)
(* waits, otherwise only when flag_ is up, which it takes down.            *)
SuspendUntil(t) ==
  \/ ~suspend /\ UNCHANGED flag
  \/ suspend /\ flag[t] /\ flag' = [flag EXCEPT ![t] = FALSE]

(* Wrong on purpose: notify() without flag_ = true.                        *)
NotifyUnflagged(S) == UNCHANGED flag

(* notify() is called on the algorithm of each of the threads S.           *)
Notify(S) ==
  flag' = [t \in Threads |-> flag[t] \/ (suspend /\ t \in S)]
=============================================================================
