------------------------- MODULE PooledWorkStealing -------------------------
(***************************************************************************)
(* The scheduling algorithm boost::fibers::algo::pooled_work_stealing      *)
(* (Boost/Fiber/pooled_work_stealing.hpp): every worker thread has one     *)
(* queue for its pinned contexts and for fibers, and a thread whose queue  *)
(* is empty probes the queues of the other threads.                        *)
(*                                                                         *)
(* The queue is context_spinlock_queue: push, pop and steal each hold its  *)
(* spinlock, pop and steal both take the oldest context and steal refuses  *)
(* a pinned one.                                                           *)
(***************************************************************************)
EXTENDS Integers, Sequences

CONSTANTS
  Threads,   \* the worker threads of the pool
  Ids,       \* 0 .. thread_count_ - 1
  Pinned,    \* the contexts that never migrate: main and dispatcher contexts
  NoCtx      \* nullptr

VARIABLES
  counter,     \* pool_ctx::counter_
  schedulers,  \* pool_ctx::schedulers_: the set of (at most one) thread whose
               \* scheduler was stored at an index, {} is the null pointer
  id,          \* id_ of each thread
  rqueue,      \* rqueue_ of each thread
  flag,        \* flag_ of each thread, protected by its mtx_
  suspend      \* pool_ctx::suspend_, never modified

(* create_pool_ctx(): no identifier is given, no scheduler is known.       *)
CreatePoolCtx ==
  /\ counter = 0
  /\ schedulers = [k \in Ids |-> {}]

(* The constructor up to its barrier: take an identifier and publish the   *)
(* scheduler under it.                                                     *)
Construct(t) ==
  /\ id' = [id EXCEPT ![t] = counter]
  /\ counter' = counter + 1
  /\ schedulers' = [schedulers EXCEPT ![counter] = {t}]

(* Wrong on purpose: awakened() pushes to the front.                       *)
AwakenedFirst(t, ctx) == rqueue' = [rqueue EXCEPT ![t] = <<ctx>> \o @]

(* Every context, pinned or not, goes to the queue of the thread.          *)
Awakened(t, ctx) == rqueue' = [rqueue EXCEPT ![t] = Append(@, ctx)]

(* Wrong on purpose: steal() of any context, pinned or not.                *)
StealPinned(v, ctx) ==
  IF rqueue[v] # << >>
  THEN /\ ctx = Head(rqueue[v])
       /\ rqueue' = [rqueue EXCEPT ![v] = Tail(@)]
  ELSE ctx = NoCtx /\ UNCHANGED rqueue

(* Wrong on purpose: steal() leaves the context in the queue of the victim.*)
StealCopy(v, ctx) ==
  /\ ctx = IF rqueue[v] # << >> /\ Head(rqueue[v]) \notin Pinned
           THEN Head(rqueue[v]) ELSE NoCtx
  /\ UNCHANGED rqueue

(* steal() on the scheduler of thread v returns ctx.                       *)
Steal(v, ctx) ==
  IF rqueue[v] # << >> /\ Head(rqueue[v]) \notin Pinned
  THEN /\ ctx = Head(rqueue[v])
       /\ rqueue' = [rqueue EXCEPT ![v] = Tail(@)]
  ELSE /\ ctx = NoCtx
       /\ UNCHANGED rqueue

(* pick_next() of thread t returns ctx. A failed probe leaves no trace, so *)
(* only the last probe of the loop is a step: it hits any other index, and *)
(* it may fail while a third thread has work, because a draw of the own    *)
(* index counts as an attempt and the same victim can be drawn twice.      *)
PickNext(t, ctx) ==
  \/ /\ rqueue[t] # << >>
     /\ ctx = Head(rqueue[t])
     /\ rqueue' = [rqueue EXCEPT ![t] = Tail(@)]
  \/ /\ rqueue[t] = << >>
     /\ \E k \in Ids \ {id[t]} : \E v \in schedulers[k] : Steal(v, ctx)
  \/ /\ rqueue[t] = << >>
     /\ Ids = {id[t]}
     /\ ctx = NoCtx
     /\ UNCHANGED rqueue

HasReadyFibers(t) == rqueue[t] # << >>

(* suspend_until(max) of thread t returns: at once when the pool busy      *)
(* waits, otherwise only when flag_ is up, which it takes down.            *)
SuspendUntil(t) ==
  \/ ~suspend /\ UNCHANGED flag
  \/ suspend /\ flag[t] /\ flag' = [flag EXCEPT ![t] = FALSE]

(* notify() is called on the algorithm of each of the threads S.           *)
Notify(S) ==
  flag' = [t \in Threads |-> flag[t] \/ (suspend /\ t \in S)]
=============================================================================
