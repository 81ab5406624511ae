------------------------------ MODULE FiberPool ------------------------------
(***************************************************************************)
(* class fiber_pool (Boost/Fiber/fiber_pool.hpp): a pool of threads, each  *)
(* with a Boost.Fiber scheduler, that runs every submitted work on a fiber *)
(* of its own. The module composes                                         *)
(*                                                                         *)
(*   - the client thread, which constructs the pool, submits, closes,      *)
(*     joins and destroys it;                                              *)
(*   - the main context of each worker thread, which executes run(i);      *)
(*   - the fibers, which execute the loop of benchmark.cpp;                *)
(*   - the dispatcher context of each worker thread and the context        *)
(*     switches of the Boost.Fiber runtime;                                *)
(*   - one of the scheduling algorithms RoundRobin, PooledSharedWork and   *)
(*     PooledWorkStealing.                                                 *)
(***************************************************************************)
EXTENDS Integers, Sequences, FiniteSets

CONSTANTS
  ThreadNumber,   \* thread_number
  Fibers,         \* the works a client may submit, each run by its own fiber
  Configurations, \* the pairs of scheduler and suspend a pool is made with
  Iterations,     \* how often the work of a fiber yields before it returns
  Endless,        \* the fibers whose work yields for ever
  Throwing,       \* the fibers whose work may end with an exception
  NoCtx           \* nullptr

Schedulers == {"round_robin", "shared_work", "work_stealing"}

Threads == 0 .. ThreadNumber - 1

Main(t) == <<"main", t>>
Disp(t) == <<"dispatcher", t>>
Pinned == {Main(t) : t \in Threads} \cup {Disp(t) : t \in Threads}
Ctx == Fibers \cup Pinned

ASSUME PoolAssumption ==
  /\ ThreadNumber \in Nat \ {0}
  /\ Configurations \subseteq Schedulers \X BOOLEAN
  /\ Iterations \in Nat
  /\ Endless \subseteq Fibers
  /\ Throwing \subseteq Fibers

ASSUME ContextAssumption ==
  /\ NoCtx \notin Ctx
  /\ Fibers \cap Pinned = {}

VARIABLES
  (* the client and the pool object *)
  sched,       \* s, never modified
  suspend,     \* suspend_ of the pool context, never modified
  cpc,         \* what the client is doing
  jidx,        \* the next working thread join() waits for
  joinable,    \* joinable
  got,         \* the working_threads whose future has been consumed by get()
  closed,      \* the submission channel is closed
  work,        \* the state of each work
  left,        \* the yields the work of each fiber still has to do
  (* run(i) *)
  mainpc,      \* where the main context of each thread is in run(i)
  futures,     \* the futures thread 0 has not collected yet, in launch order
  threw,       \* run(0) was left by an exception
  (* the Boost.Fiber runtime of each thread *)
  active,      \* the context that owns the thread
  handover,    \* the context just switched out, not handed to awakened() yet
  dpc,         \* where the dispatcher is in its loop
  remote,      \* the main context is in the remote ready queue
  (* the scheduling algorithms *)
  shared, local, flag, counter, schedulers, id

poolVars   == <<sched, suspend>>
clientVars == <<cpc, jidx, joinable, got>>
workVars   == <<closed, work, left>>
runVars    == <<mainpc, futures, threw>>
threadVars == <<active, handover, dpc>>
queueVars  == <<shared, local>>
wakeVars   == <<remote, flag>>
stealVars  == <<counter, schedulers, id>>
setupVars  == <<poolVars, stealVars>>  \* written at most while a thread starts
vars == <<poolVars, clientVars, workVars, runVars, threadVars, queueVars,
          wakeVars, stealVars>>

RR == INSTANCE RoundRobin WITH rqueue <- local
SW == INSTANCE PooledSharedWork WITH rqueue <- shared, lqueue <- local
WS == INSTANCE PooledWorkStealing WITH rqueue <- local, Ids <- Threads

-----------------------------------------------------------------------------
(* The scheduling algorithm installed by run(). *)

Awakened(t, ctx) ==
  \/ sched = "round_robin"   /\ RR!Awakened(t, ctx) /\ UNCHANGED shared
  \/ sched = "shared_work"   /\ SW!Awakened(t, ctx)
  \/ sched = "work_stealing" /\ WS!Awakened(t, ctx) /\ UNCHANGED shared

PickNext(t, ctx) ==
  \/ sched = "round_robin"   /\ RR!PickNext(t, ctx) /\ UNCHANGED shared
  \/ sched = "shared_work"   /\ SW!PickNext(t, ctx)
  \/ sched = "work_stealing" /\ WS!PickNext(t, ctx) /\ UNCHANGED shared

SuspendUntil(t) ==
  \/ sched = "round_robin"   /\ RR!SuspendUntil(t)
  \/ sched = "shared_work"   /\ SW!SuspendUntil(t)
  \/ sched = "work_stealing" /\ WS!SuspendUntil(t)

Notify(S) ==
  \/ sched = "round_robin"   /\ RR!Notify(S)
  \/ sched = "shared_work"   /\ SW!Notify(S)
  \/ sched = "work_stealing" /\ WS!Notify(S)

-----------------------------------------------------------------------------
(* The Boost.Fiber runtime. *)

(* The context ctx runs on thread t and may act: what it switched away     *)
(* from has been handed over.                                              *)
Runs(t, ctx) == active[t] = ctx /\ handover[t] = NoCtx

(* The running context of t gives up the thread; back is itself when it    *)
(* stays runnable (yield) and NoCtx when it blocks or ends.                *)
Switch(t, back) ==
  \E ctx \in Ctx \cup {NoCtx} :
    /\ PickNext(t, ctx)
    /\ active' = [active EXCEPT ![t] = ctx]
    /\ handover' = [handover EXCEPT ![t] = back]

(* The main contexts of the threads S are made runnable from other         *)
(* threads: each is linked to a remote ready queue, then notify().         *)
WakeRemote(S) ==
  /\ remote' = [u \in Threads |-> remote[u] \/ u \in S]
  /\ Notify(S)

NoWake == UNCHANGED wakeVars

(* On the stack it switched to, the runtime makes the context it came from *)
(* ready again.                                                            *)
Handover(t) ==
  /\ handover[t] # NoCtx
  /\ Awakened(t, handover[t])
  /\ handover' = [handover EXCEPT ![t] = NoCtx]
  /\ UNCHANGED <<active, dpc, clientVars, workVars, runVars, wakeVars,
                 setupVars>>

(* The fibers in the worker queue of t while its dispatcher runs: awakened *)
(* of both pooled algorithms detaches a fiber, the default one does not.   *)
Attached(t) ==
  {f \in Fibers : /\ sched = "round_robin"
                  /\ \E k \in DOMAIN local[t] : local[t][k] = f}

(* The head of the dispatcher loop once the main context has left its      *)
(* thread function: notify the own algorithm and end the thread, unless    *)
(* fibers are still attached to it.                                        *)
DispatchExit(t) ==
  /\ Runs(t, Disp(t)) /\ dpc[t] = "top"
  /\ mainpc[t] = "exiting" /\ Attached(t) = {}
  /\ Notify({t})
  /\ mainpc' = [mainpc EXCEPT ![t] = "exited"]
  /\ active' = [active EXCEPT ![t] = NoCtx]
  /\ UNCHANGED <<handover, dpc, remote, futures, threw, clientVars, workVars,
                 queueVars, setupVars>>

(* The head of the dispatcher loop otherwise: move the remotely readied    *)
(* main context to the ready queue.                                        *)
DispatchTop(t) ==
  /\ Runs(t, Disp(t)) /\ dpc[t] = "top"
  /\ mainpc[t] = "exiting" => Attached(t) # {}
  /\ IF mainpc[t] = "exiting" THEN Notify({t}) ELSE UNCHANGED flag
  /\ IF remote[t] THEN Awakened(t, Main(t)) ELSE UNCHANGED queueVars
  /\ remote' = [remote EXCEPT ![t] = FALSE]
  /\ dpc' = [dpc EXCEPT ![t] = "pick"]
  /\ UNCHANGED <<active, handover, clientVars, workVars, runVars, setupVars>>

(* The dispatcher resumes the next ready context and stays ready behind    *)
(* it, or goes on to suspend_until() when there is none.                   *)
DispatchPick(t) ==
  /\ Runs(t, Disp(t)) /\ dpc[t] = "pick"
  /\ \E ctx \in Ctx \cup {NoCtx} :
       /\ PickNext(t, ctx)
       /\ IF ctx = NoCtx
          THEN /\ dpc' = [dpc EXCEPT ![t] = "suspend"]
               /\ UNCHANGED <<active, handover>>
          ELSE /\ dpc' = [dpc EXCEPT ![t] = "top"]
               /\ active' = [active EXCEPT ![t] = ctx]
               /\ handover' = [handover EXCEPT ![t] = Disp(t)]
  /\ UNCHANGED <<clientVars, workVars, runVars, wakeVars, setupVars>>

DispatchSuspend(t) ==
  /\ Runs(t, Disp(t)) /\ dpc[t] = "suspend"
  /\ SuspendUntil(t)
  /\ dpc' = [dpc EXCEPT ![t] = "top"]
  /\ UNCHANGED <<active, handover, remote, clientVars, workVars, runVars,
                 queueVars, setupVars>>
-----------------------------------------------------------------------------
(* The work of a fiber, as benchmark.cpp submits it. *)

(* Wrong on purpose: the loop does one iteration more.                     *)
FiberYieldsOnceMore(t, f) ==
  /\ Runs(t, f) /\ work[f] = "launched"
  /\ left[f] >= 0
  /\ left' = [left EXCEPT ![f] = @ - 1]
  /\ Switch(t, f)
  /\ UNCHANGED <<dpc, closed, work, clientVars, runVars, wakeVars, setupVars>>

(* One iteration: this_fiber::yield().                                     *)
FiberYield(t, f) ==
  /\ Runs(t, f) /\ work[f] = "launched"
  /\ f \in Endless \/ left[f] > 0
  /\ left' = [left EXCEPT ![f] = IF f \in Endless THEN @ ELSE @ - 1]
  /\ Switch(t, f)
  /\ UNCHANGED <<dpc, closed, work, clientVars, runVars, wakeVars, setupVars>>

(* The work returns or throws: its packaged_task fulfils the future and    *)
(* readies the main context of thread 0 when it waits for this very one.   *)
FiberDone(t, f) ==
  /\ Runs(t, f) /\ work[f] = "launched"
  /\ f \notin Endless /\ left[f] = 0
  /\ \/ work' = [work EXCEPT ![f] = "value"]
     \/ f \in Throwing /\ work' = [work EXCEPT ![f] = "exception"]
  /\ IF mainpc[0] = "getwait" /\ Head(futures) = f
     THEN /\ mainpc' = [mainpc EXCEPT ![0] = "get"]
          /\ IF t = 0
             THEN Awakened(0, Main(0)) /\ NoWake
             ELSE WakeRemote({0}) /\ UNCHANGED queueVars
     ELSE UNCHANGED <<mainpc, queueVars, wakeVars>>
  /\ UNCHANGED <<closed, left, futures, threw, clientVars, threadVars,
                 setupVars>>

FiberTerminate(t, f) ==
  /\ Runs(t, f) /\ work[f] \in {"value", "exception"}
  /\ Switch(t, NoCtx)
  /\ UNCHANGED <<dpc, clientVars, workVars, runVars, wakeVars, setupVars>>

-----------------------------------------------------------------------------
(* run(i), executed by the main context of each thread. *)

(* use_scheduling_algorithm(): only the constructor of the work-stealing   *)
(* one does more than keeping the pool context.                            *)
UseSchedulingAlgorithm(t) ==
  /\ mainpc[t] = "new"
  /\ IF sched = "work_stealing"
     THEN /\ WS!Construct(t)
          /\ mainpc' = [mainpc EXCEPT ![t] = "constructed"]
     ELSE /\ mainpc' = [mainpc EXCEPT ![t] = "start"]
          /\ UNCHANGED stealVars
  /\ UNCHANGED <<futures, threw, clientVars, workVars, threadVars, queueVars,
                 wakeVars, poolVars>>

(* Wrong on purpose: no barrier_.wait() in the constructor.                *)
ConstructorNoBarrier(t) ==
  /\ mainpc[t] = "constructed"
  /\ mainpc' = [mainpc EXCEPT ![t] = "start"]
  /\ UNCHANGED <<futures, threw, clientVars, workVars, threadVars, queueVars,
                 wakeVars, setupVars>>

(* barrier_.wait() of the work-stealing constructor: every scheduler of    *)
(* the pool has been published.                                            *)
ConstructorBarrier(t) ==
  /\ mainpc[t] = "constructed"
  /\ \A u \in Threads : mainpc[u] \notin {"unborn", "new"}
  /\ mainpc' = [mainpc EXCEPT ![t] = "start"]
  /\ UNCHANGED <<futures, threw, clientVars, workVars, threadVars, queueVars,
                 wakeVars, setupVars>>

(* starting_block.count_down_and_wait(): ThreadNumber + 1 parties. Only    *)
(* the first thread receives work.                                         *)
StartingBlock(t) ==
  /\ mainpc[t] = "start"
  /\ \A u \in Threads : mainpc[u] \notin {"unborn", "new", "constructed"}
  /\ cpc # "ctor"
  /\ mainpc' = [mainpc EXCEPT ![t] = IF t = 0 THEN "pop" ELSE "finish"]
  /\ UNCHANGED <<futures, threw, clientVars, workVars, threadVars, queueVars,
                 wakeVars, setupVars>>

(* Wrong on purpose: the future of the work is not kept.                   *)
PopWorkNoFuture(f) ==
  /\ Runs(0, Main(0)) /\ mainpc[0] = "pop"
  /\ work[f] = "offered"
  /\ work' = [work EXCEPT ![f] = "launched"]
  /\ cpc' = "idle"
  /\ active' = [active EXCEPT ![0] = f]
  /\ handover' = [handover EXCEPT ![0] = Main(0)]
  /\ UNCHANGED <<futures, jidx, joinable, got, closed, left, mainpc, threw, dpc,
                 queueVars, wakeVars, setupVars>>

(* submission.pop() takes the work of the waiting submit(), which returns; *)
(* the work is launched with launch::dispatch, so its fiber runs at once   *)
(* and the main context becomes ready behind it.                           *)
PopWork(f) ==
  /\ Runs(0, Main(0)) /\ mainpc[0] = "pop"
  /\ work[f] = "offered"
  /\ work' = [work EXCEPT ![f] = "launched"]
  /\ futures' = Append(futures, f)
  /\ cpc' = "idle"
  /\ active' = [active EXCEPT ![0] = f]
  /\ handover' = [handover EXCEPT ![0] = Main(0)]
  /\ UNCHANGED <<jidx, joinable, got, closed, left, mainpc, threw, dpc,
                 queueVars, wakeVars, setupVars>>

(* Wrong on purpose: no loop over the futures.                             *)
PopEmptyNoGet ==
  /\ Runs(0, Main(0)) /\ mainpc[0] = "pop"
  /\ \A f \in Fibers : work[f] # "offered"
  /\ IF closed
     THEN /\ mainpc' = [mainpc EXCEPT ![0] = "finish"]
          /\ UNCHANGED <<active, handover, queueVars>>
     ELSE /\ mainpc' = [mainpc EXCEPT ![0] = "popwait"]
          /\ Switch(0, NoCtx)
  /\ UNCHANGED <<futures, threw, dpc, clientVars, workVars, wakeVars,
                 setupVars>>

(* submission.pop() finds no work: the end of the loop, or a wait.         *)
PopEmpty ==
  /\ Runs(0, Main(0)) /\ mainpc[0] = "pop"
  /\ \A f \in Fibers : work[f] # "offered"
  /\ IF closed
     THEN /\ mainpc' = [mainpc EXCEPT ![0] = "get"]
          /\ UNCHANGED <<active, handover, queueVars>>
     ELSE /\ mainpc' = [mainpc EXCEPT ![0] = "popwait"]
          /\ Switch(0, NoCtx)
  /\ UNCHANGED <<futures, threw, dpc, clientVars, workVars, wakeVars,
                 setupVars>>

(* Wrong on purpose: f.get() does not wait.                                *)
GetFutureNoWait ==
  /\ Runs(0, Main(0)) /\ mainpc[0] = "get" /\ futures # << >>
  /\ futures' = Tail(futures)
  /\ UNCHANGED <<mainpc, threw, dpc, active, handover, clientVars, workVars,
                 queueVars, wakeVars, setupVars>>

(* One f.get() of the loop over the futures. An exception leaves run(),    *)
(* and with it the thread function, before the finish line.                *)
GetFuture ==
  /\ Runs(0, Main(0)) /\ mainpc[0] = "get" /\ futures # << >>
  /\ LET f == Head(futures) IN
     \/ /\ work[f] = "value"
        /\ futures' = Tail(futures)
        /\ UNCHANGED <<mainpc, threw, active, handover, queueVars>>
     \/ /\ work[f] = "launched"
        /\ mainpc' = [mainpc EXCEPT ![0] = "getwait"]
        /\ Switch(0, NoCtx)
        /\ UNCHANGED <<futures, threw>>
     \/ /\ work[f] = "exception"
        /\ threw' = TRUE
        /\ mainpc' = [mainpc EXCEPT ![0] = "exiting"]
        /\ Switch(0, NoCtx)
        /\ UNCHANGED futures
  /\ UNCHANGED <<dpc, clientVars, workVars, wakeVars, setupVars>>

GetDone ==
  /\ Runs(0, Main(0)) /\ mainpc[0] = "get" /\ futures = << >>
  /\ mainpc' = [mainpc EXCEPT ![0] = "finish"]
  /\ UNCHANGED <<futures, threw, clientVars, workVars, threadVars, queueVars,
                 wakeVars, setupVars>>

(* Wrong on purpose: the finish line, like the starting block, has one     *)
(* party more than there are threads.                                      *)
FinishLineOneMore(t) ==
  /\ Runs(t, Main(t)) /\ mainpc[t] = "finish"
  /\ mainpc' = [mainpc EXCEPT ![t] = "finishwait"]
  /\ Switch(t, NoCtx)
  /\ UNCHANGED <<futures, threw, dpc, clientVars, workVars, wakeVars,
                 setupVars>>

(* finish_line.wait(), a fiber barrier: all but the last thread block only *)
(* their main context, the last one readies all of them.                   *)
FinishLine(t) ==
  /\ Runs(t, Main(t)) /\ mainpc[t] = "finish"
  /\ IF \A u \in Threads \ {t} : mainpc[u] = "finishwait"
     THEN /\ mainpc' = [u \in Threads |-> "released"]
          /\ WakeRemote(Threads \ {t})
          /\ UNCHANGED <<active, handover, queueVars>>
     ELSE /\ mainpc' = [mainpc EXCEPT ![t] = "finishwait"]
          /\ Switch(t, NoCtx)
          /\ NoWake
  /\ UNCHANGED <<futures, threw, dpc, clientVars, workVars, setupVars>>

(* run() returns, which fulfils the std::future of the thread, and the     *)
(* scheduler of the ending thread waits for its dispatcher.                *)
RunReturns(t) ==
  /\ Runs(t, Main(t)) /\ mainpc[t] = "released"
  /\ mainpc' = [mainpc EXCEPT ![t] = "exiting"]
  /\ Switch(t, NoCtx)
  /\ UNCHANGED <<futures, threw, dpc, clientVars, workVars, wakeVars,
                 setupVars>>

RunReturned(t) == mainpc[t] \in {"exiting", "exited"}

-----------------------------------------------------------------------------
(* The client and the member functions of the pool it calls. *)

(* The constructor starts run(t) on a thread of its own, in order...       *)
Spawn(t) ==
  /\ cpc = "ctor" /\ mainpc[t] = "unborn"
  /\ \A u \in 0 .. t - 1 : mainpc[u] # "unborn"
  /\ mainpc' = [mainpc EXCEPT ![t] = "new"]
  /\ UNCHANGED <<futures, threw, clientVars, workVars, threadVars, queueVars,
                 wakeVars, setupVars>>

(* ... arrives at the starting block...                                    *)
ConstructorArrives ==
  /\ cpc = "ctor"
  /\ \A t \in Threads : mainpc[t] # "unborn"
  /\ cpc' = "started"
  /\ UNCHANGED <<jidx, joinable, got, workVars, runVars, threadVars, queueVars,
                 wakeVars, setupVars>>

(* ... and returns when every thread has.                                  *)
ConstructorReturns ==
  /\ cpc = "started"
  /\ \A t \in Threads : mainpc[t] \notin {"unborn", "new", "constructed"}
  /\ cpc' = "idle"
  /\ UNCHANGED <<jidx, joinable, got, workVars, runVars, threadVars, queueVars,
                 wakeVars, setupVars>>

(* Ready the main context of thread 0 if it waits on the channel.          *)
WakeConsumer ==
  IF mainpc[0] = "popwait"
  THEN /\ mainpc' = [mainpc EXCEPT ![0] = "pop"]
       /\ WakeRemote({0})
  ELSE UNCHANGED <<mainpc, remote, flag>>

(* submit(): push to the unbuffered channel, which waits until the work is *)
(* popped. On a closed channel push() only returns a status, which         *)
(* submit() ignores.                                                       *)
Submit(f) ==
  /\ cpc = "idle" /\ work[f] = "new"
  /\ IF closed
     THEN /\ work' = [work EXCEPT ![f] = "dropped"]
          /\ UNCHANGED <<cpc, mainpc, remote, flag>>
     ELSE /\ work' = [work EXCEPT ![f] = "offered"]
          /\ cpc' = "push"
          /\ WakeConsumer
  /\ UNCHANGED <<jidx, joinable, got, closed, left, futures, threw, threadVars,
                 queueVars, setupVars>>

Close ==
  /\ cpc = "idle" /\ ~closed
  /\ closed' = TRUE
  /\ WakeConsumer
  /\ UNCHANGED <<clientVars, work, left, futures, threw, threadVars, queueVars,
                 setupVars>>

(* join() up to its loop, called by the client or by the destructor.       *)
EnterJoin(where) ==
  /\ closed' = TRUE
  /\ IF closed THEN UNCHANGED <<mainpc, remote, flag>> ELSE WakeConsumer
  /\ jidx' = 0
  /\ cpc' = where
  /\ UNCHANGED <<joinable, got>>

Join ==
  /\ cpc = "idle" /\ joinable
  /\ EnterJoin("join")
  /\ UNCHANGED <<work, left, futures, threw, threadVars, queueVars, setupVars>>

(* Wrong on purpose: the destructor does not join.                         *)
DestroyNoJoin ==
  /\ cpc = "idle"
  /\ cpc' = "destroyed"
  /\ UNCHANGED <<jidx, joinable, got, workVars, runVars, threadVars, queueVars,
                 wakeVars, setupVars>>

(* ~fiber_pool(): join() unless it has succeeded before. *)
Destroy ==
  /\ cpc = "idle"
  /\ IF joinable
     THEN EnterJoin("dtor")
     ELSE /\ cpc' = "destroyed"
          /\ UNCHANGED <<jidx, joinable, got, closed, mainpc, remote, flag>>
  /\ UNCHANGED <<work, left, futures, threw, threadVars, queueVars, setupVars>>

(* An exception leaves join(): the client that called it catches it, but   *)
(* from the destructor it ends the program.                                *)
JoinThrows == cpc' = IF cpc = "dtor" THEN "terminated" ELSE "idle"

(* t.get() of the next working thread: waits for run() of that thread,     *)
(* consumes the future and throws what run() threw. On a future that is    *)
(* already consumed it is undefined: it throws or it crashes.              *)
JoinGet ==
  /\ cpc \in {"join", "dtor"} /\ jidx < ThreadNumber
  /\ \/ /\ jidx \in got
        /\ JoinThrows \/ cpc' = "terminated"
        /\ UNCHANGED <<jidx, got>>
     \/ /\ jidx \notin got /\ RunReturned(jidx)
        /\ got' = got \cup {jidx}
        /\ IF jidx = 0 /\ threw
           THEN JoinThrows /\ UNCHANGED jidx
           ELSE jidx' = jidx + 1 /\ UNCHANGED cpc
  /\ UNCHANGED <<joinable, workVars, runVars, threadVars, queueVars, wakeVars,
                 setupVars>>

(* Wrong on purpose: the loop of join() stops before the last thread.      *)
JoinReturnsEarly ==
  /\ cpc \in {"join", "dtor"} /\ jidx = ThreadNumber - 1
  /\ joinable' = FALSE
  /\ cpc' = IF cpc = "dtor" THEN "destroyed" ELSE "idle"
  /\ UNCHANGED <<jidx, got, workVars, runVars, threadVars, queueVars, wakeVars,
                 setupVars>>

(* The end of join(), and of the destructor that called it.                *)
JoinReturns ==
  /\ cpc \in {"join", "dtor"} /\ jidx = ThreadNumber
  /\ joinable' = FALSE
  /\ cpc' = IF cpc = "dtor" THEN "destroyed" ELSE "idle"
  /\ UNCHANGED <<jidx, got, workVars, runVars, threadVars, queueVars, wakeVars,
                 setupVars>>
-----------------------------------------------------------------------------
Init ==
  /\ \E c \in Configurations : sched = c[1] /\ suspend = c[2]
  /\ cpc = "ctor" /\ jidx = 0 /\ joinable = TRUE /\ got = {}
  /\ closed = FALSE
  /\ work = [f \in Fibers |-> "new"]
  /\ left = [f \in Fibers |-> Iterations]
  /\ mainpc = [t \in Threads |-> "unborn"]
  /\ futures = << >> /\ threw = FALSE
  /\ active = [t \in Threads |-> Main(t)]
  /\ handover = [t \in Threads |-> NoCtx]
  /\ dpc = [t \in Threads |-> "top"]
  /\ remote = [t \in Threads |-> FALSE]
  /\ SW!CreatePoolCtx /\ WS!CreatePoolCtx
  /\ local = [t \in Threads |-> <<Disp(t)>>]
  /\ flag = [t \in Threads |-> FALSE]
  /\ id = [t \in Threads |-> 0]

MainStep(t) ==
  \/ UseSchedulingAlgorithm(t) \/ ConstructorBarrier(t) \/ StartingBlock(t)
  \/ FinishLine(t) \/ RunReturns(t)
  \/ t = 0 /\ \/ \E f \in Fibers : PopWork(f)
              \/ PopEmpty \/ GetFuture \/ GetDone

RuntimeStep(t) ==
  \/ Handover(t)
  \/ DispatchTop(t) \/ DispatchPick(t) \/ DispatchSuspend(t) \/ DispatchExit(t)

FiberStep(t) ==
  \E f \in Fibers : FiberYield(t, f) \/ FiberDone(t, f) \/ FiberTerminate(t, f)

(* std::terminate() stops every thread. *)
ThreadStep(t) ==
  cpc # "terminated" /\ (MainStep(t) \/ RuntimeStep(t) \/ FiberStep(t))

(* What the client does once it is in a member function of the pool... *)
ClientStep ==
  \/ \E t \in Threads : Spawn(t)
  \/ ConstructorArrives \/ ConstructorReturns
  \/ JoinGet \/ JoinReturns

(* ... and which ones it calls. *)
ClientCall ==
  \/ \E f \in Fibers : Submit(f)
  \/ Close \/ Join \/ Destroy

(* Everything has ended: the only state in which the system may stop.      *)
Ended ==
  /\ \/ cpc = "terminated"
     \/ cpc = "destroyed" /\ \A t \in Threads : mainpc[t] = "exited"
  /\ UNCHANGED vars

Next ==
  \/ ClientStep \/ ClientCall
  \/ \E t \in Threads : ThreadStep(t)
  \/ Ended

Spec == Init /\ [][Next]_vars

(* Every operating system thread that can run is eventually run; the       *)
(* client is free to call what it likes, but does not stop inside a call.  *)
Fairness ==
  /\ WF_vars(ClientStep)
  /\ \A t \in Threads : WF_vars(ThreadStep(t))

FairSpec == Spec /\ Fairness
=============================================================================
