---------------------------- MODULE ProgressProofs ----------------------------
(***************************************************************************)
(* Proof that a pool never deadlocks, for any number of threads and works  *)
(* and for each scheduler: NoDeadlock.                                     *)
(*                                                                         *)
(* The invariant has three parts: in which order the threads and the       *)
(* client pass the barriers and the channel (StageInv), in which state a   *)
(* thread waits for a wake-up (SuspendInv), and that the last one to wait  *)
(* leaves no fiber in the shared queue (SharedInv).                        *)
(***************************************************************************)
EXTENDS HolderProofs

-----------------------------------------------------------------------------
(* The barriers, the submission channel and the finish line. *)

Starting == {"unborn", "new", "constructed"}

(* The constructor passes the starting block when all threads have reached *)
(* it, and a work is submitted only after that.                            *)
StartInv ==
  /\ cpc # "ctor" => \A t \in Threads : mainpc[t] # "unborn"
  /\ cpc \notin {"ctor", "started"} =>
       \A t \in Threads : mainpc[t] \notin Starting
  /\ cpc \in {"ctor", "started"} => \A f \in Fibers : work[f] = "new"

(* Only thread 0 receives works and collects futures. It waits for a work  *)
(* only while none is offered and the channel is open, and for the future  *)
(* of a work only while that runs.                                         *)
ReceiveInv ==
  /\ \A t \in Threads :
       mainpc[t] \in {"pop", "popwait", "get", "getwait"} => t = 0
  /\ mainpc[0] = "popwait" => ~closed /\ cpc # "push"
  /\ cpc = "push" => \E f \in Fibers : work[f] = "offered"
  /\ mainpc[0] = "getwait" =>
       futures # << >> /\ work[Head(futures)] = "launched"

(* The last thread to reach the finish line does not wait there, and all   *)
(* the threads pass it with thread 0, unless an exception took that past.  *)
FinishInv ==
  /\ \E t \in Threads : mainpc[t] # "finishwait"
  /\ threw => mainpc[0] \in {"exiting", "exited"}
  /\ ~threw /\ PastFinishLine(0) => \A t \in Threads : PastFinishLine(t)

StageInv == StartInv /\ ReceiveInv /\ FinishInv

(* The steps of the client keep the stages in order.                       *)
LEMMA ClientStepStage ==
  ASSUME PoolTypeOK, PoolInv, StageInv, ClientStep
  PROVE  StageInv'
<1> USE ThreadZero
    DEF PoolTypeOK, StageInv, StartInv, ReceiveInv, FinishInv, PastFinishLine,
        Starting
<1>1. ASSUME NEW t \in Threads, Spawn(t)
      PROVE  StageInv'
  <2>1. StartInv'
    BY <1>1 DEF Spawn, clientVars, workVars
  <2>2. ReceiveInv'
    BY <1>1 DEF Spawn, clientVars, workVars
  <2>3. FinishInv'
    BY <1>1 DEF Spawn, clientVars, workVars
  <2> QED BY <2>1, <2>2, <2>3
<1>2. CASE ConstructorArrives
  BY <1>2 DEF ConstructorArrives, workVars, runVars
<1>3. CASE ConstructorReturns
  BY <1>3 DEF ConstructorReturns, workVars, runVars
<1>4. CASE JoinGet
  BY <1>4 DEF JoinGet, JoinThrows, workVars, runVars
<1>5. CASE JoinReturns
  BY <1>5 DEF JoinReturns, workVars, runVars
<1> QED BY <1>1, <1>2, <1>3, <1>4, <1>5 DEF ClientStep

(* So do its calls.                                                        *)
LEMMA ClientCallStage ==
  ASSUME PoolTypeOK, PoolInv, StageInv, ClientCall
  PROVE  StageInv'
<1> USE ThreadZero
    DEF PoolTypeOK, StageInv, StartInv, ReceiveInv, FinishInv, PastFinishLine,
        Starting
<1>1. ASSUME NEW f \in Fibers, Submit(f)
      PROVE  StageInv'
  <2>1. CASE closed
    BY <1>1, <2>1 DEF Submit
  <2>2. CASE ~closed
    <3>1. \/ mainpc' = mainpc /\ mainpc[0] # "popwait"
          \/ mainpc[0] = "popwait" /\ mainpc' = [mainpc EXCEPT ![0] = "pop"]
      BY <1>1, <2>2 DEF Submit, WakeConsumer
    <3>2. /\ cpc' = "push" /\ work[f] = "new" /\ cpc = "idle"
          /\ work' = [work EXCEPT ![f] = "offered"]
          /\ UNCHANGED <<closed, futures, threw>>
      BY <1>1, <2>2 DEF Submit
    <3>3. StartInv'
      BY <3>1, <3>2
    <3>4. ReceiveInv'
      BY <3>1, <3>2
    <3>5. FinishInv'
      BY <3>1, <3>2
    <3> QED BY <3>3, <3>4, <3>5
  <2> QED BY <2>1, <2>2
<1>2. CASE Close
  BY <1>2 DEF Close, WakeConsumer, clientVars
<1>3. CASE Join
  BY <1>3 DEF Join, EnterJoin, WakeConsumer
<1>4. CASE Destroy
  BY <1>4 DEF Destroy, EnterJoin, WakeConsumer
<1> QED BY <1>1, <1>2, <1>3, <1>4 DEF ClientCall

(* So do the steps of run(i)...                                            *)
LEMMA MainStepStage ==
  ASSUME PoolTypeOK, PoolInv, StageInv, NEW t \in Threads, MainStep(t)
  PROVE  StageInv'
<1> USE ThreadZero
    DEF PoolTypeOK, StageInv, StartInv, ReceiveInv, FinishInv, PastFinishLine,
        Starting
<1>1. CASE \/ UseSchedulingAlgorithm(t) \/ ConstructorBarrier(t)
           \/ StartingBlock(t)
  <2>1. /\ UNCHANGED <<futures, threw, clientVars, workVars>>
        /\ mainpc[t] \in {"new", "constructed", "start"}
        /\ mainpc[t] = "start" => /\ cpc # "ctor"
             /\ \A u \in Threads : mainpc[u] \notin Starting
        /\ \/ mainpc[t] # "start"
                /\ mainpc' \in {[mainpc EXCEPT ![t] = "constructed"],
                                [mainpc EXCEPT ![t] = "start"]}
           \/ mainpc[t] = "start"
                /\ mainpc' = [mainpc EXCEPT ![t] = IF t = 0 THEN "pop"
                                                   ELSE "finish"]
    BY <1>1 DEF UseSchedulingAlgorithm, ConstructorBarrier, StartingBlock
  <2>2. StartInv'
    BY <1>1 DEF UseSchedulingAlgorithm, ConstructorBarrier, StartingBlock,
                clientVars, workVars
  <2>3. ReceiveInv'
    BY <2>1 DEF clientVars, workVars
  <2>4. FinishInv'
    BY <2>1 DEF clientVars, workVars
  <2> QED BY <2>2, <2>3, <2>4
<1>2. CASE FinishLine(t)
  <2>1. /\ UNCHANGED <<futures, threw, clientVars, workVars>>
        /\ mainpc[t] = "finish"
    BY <1>2 DEF FinishLine
  <2>2. CASE /\ \A u \in Threads \ {t} : mainpc[u] = "finishwait"
             /\ mainpc' = [u \in Threads |-> "released"]
    BY <2>1, <2>2 DEF clientVars, workVars
  <2>3. CASE /\ ~ \A u \in Threads \ {t} : mainpc[u] = "finishwait"
             /\ mainpc' = [mainpc EXCEPT ![t] = "finishwait"]
    BY <2>1, <2>3 DEF clientVars, workVars
  <2> QED BY <1>2, <2>2, <2>3 DEF FinishLine
<1>3. CASE RunReturns(t)
  BY <1>3 DEF RunReturns, clientVars, workVars
<1>4. CASE \E f \in Fibers : PopWork(f)
  <2> PICK f \in Fibers : PopWork(f)
    BY <1>4
  <2>1. /\ work[f] = "offered" /\ mainpc[0] = "pop" /\ cpc' = "idle"
        /\ cpc = "push"
        /\ UNCHANGED <<mainpc, closed, threw>>
        /\ work' = [work EXCEPT ![f] = "launched"]
    BY DEF PopWork, PoolInv, OneOffer
  <2> QED BY <2>1
<1>5. CASE PopEmpty
  BY <1>5 DEF PopEmpty, clientVars, workVars
<1>6. CASE GetFuture
  BY <1>6 DEF GetFuture, clientVars, workVars
<1>7. CASE GetDone
  BY <1>7 DEF GetDone, clientVars, workVars
<1> QED BY <1>1, <1>2, <1>3, <1>4, <1>5, <1>6, <1>7 DEF MainStep

(* ... of the runtime...                                                   *)
LEMMA RuntimeStepStage ==
  ASSUME PoolTypeOK, PoolInv, StageInv, NEW t \in Threads, RuntimeStep(t)
  PROVE  StageInv'
<1> USE ThreadZero
    DEF PoolTypeOK, StageInv, StartInv, ReceiveInv, FinishInv, PastFinishLine,
        Starting, clientVars, workVars
<1>1. CASE DispatchExit(t)
  BY <1>1 DEF DispatchExit
<1>2. CASE UNCHANGED <<clientVars, workVars, runVars>>
  BY <1>2 DEF runVars
<1> QED
  BY <1>1, <1>2 DEF RuntimeStep, Handover, DispatchTop, DispatchPick,
                    DispatchSuspend

(* ... and of the fibers.                                                  *)
LEMMA FiberStepStage ==
  ASSUME PoolTypeOK, PoolInv, StageInv, NEW t \in Threads, FiberStep(t)
  PROVE  StageInv'
<1> USE ThreadZero
    DEF PoolTypeOK, StageInv, StartInv, ReceiveInv, FinishInv, PastFinishLine,
        Starting, clientVars
<1> PICK f \in Fibers :
       FiberYield(t, f) \/ FiberDone(t, f) \/ FiberTerminate(t, f)
  BY DEF FiberStep
<1>1. CASE FiberYield(t, f)
  BY <1>1 DEF FiberYield, runVars
<1>2. CASE FiberDone(t, f)
  <2>1. /\ work[f] = "launched"
        /\ \/ work' = [work EXCEPT ![f] = "value"]
           \/ work' = [work EXCEPT ![f] = "exception"]
        /\ UNCHANGED <<closed, futures, threw, clientVars>>
    BY <1>2 DEF FiberDone
  <2>2. CASE mainpc' = mainpc /\ ~(mainpc[0] = "getwait" /\ Head(futures) = f)
    BY <2>1, <2>2
  <2>3. CASE mainpc[0] = "getwait" /\ mainpc' = [mainpc EXCEPT ![0] = "get"]
    BY <2>1, <2>3
  <2> QED BY <1>2, <2>2, <2>3 DEF FiberDone
<1>3. CASE FiberTerminate(t, f)
  BY <1>3 DEF FiberTerminate, runVars, workVars
<1> QED BY <1>1, <1>2, <1>3

(* The stages are passed in order in every reachable state.                *)
THEOREM StageInvariant == Spec => []StageInv
<1>1. Init => StageInv
  BY ThreadZero DEF Init, StageInv, StartInv, ReceiveInv, FinishInv,
                    PastFinishLine
<1>2. PoolTypeOK /\ PoolInv /\ StageInv /\ [Next]_vars => StageInv'
  <2> SUFFICES ASSUME PoolTypeOK, PoolInv, StageInv, [Next]_vars
               PROVE  StageInv'
    OBVIOUS
  <2>1. CASE UNCHANGED vars
    BY <2>1 DEF vars, clientVars, workVars, runVars, StageInv, StartInv,
                ReceiveInv, FinishInv, PastFinishLine
  <2> QED
    BY <2>1, ClientStepStage, ClientCallStage, MainStepStage,
       RuntimeStepStage, FiberStepStage DEF Next, ThreadStep, Ended
<1> QED BY <1>1, <1>2, PoolInvariant, PTL DEF Spec

-----------------------------------------------------------------------------
(* The threads that wait for a wake-up. *)

Awake(t) == dpc[t] # "suspend" /\ mainpc[t] # "exited"

(* In suspend_until() it is the dispatcher that waits, its thread has no   *)
(* ready context of its own and nothing is left to be handed over. A       *)
(* thread that has ended runs nothing.                                     *)
SuspendInv ==
  \A t \in Threads :
    /\ dpc[t] = "suspend" =>
         active[t] = Disp(t) /\ handover[t] = NoCtx /\ local[t] = << >>
    /\ mainpc[t] = "exited" => active[t] = NoCtx /\ handover[t] = NoCtx

(* Only the shared-work scheduler has a shared queue, and one thread is    *)
(* not waiting while there is a fiber in it.                               *)
SharedInv ==
  /\ sched # "shared_work" => shared = << >>
  /\ ~threw /\ shared # << >> => \E t \in Threads : Awake(t)

(* A step of thread t, which does not wait after it, on the queues.        *)
Moves(t) ==
  /\ \A u \in Threads \ {t} :
       /\ dpc'[u] = dpc[u] /\ active'[u] = active[u]
       /\ handover'[u] = handover[u]
       /\ local[u] = << >> => local'[u] = << >>
  /\ \A u \in Threads : mainpc'[u] = "exited" => mainpc[u] = "exited"
  /\ sched' = sched /\ (sched # "shared_work" => shared' = shared)
  /\ Awake(t)'

(* A step that touches neither the queues nor who waits.                   *)
Still ==
  /\ UNCHANGED <<sched, active, handover, dpc, shared, local>>
  /\ \A u \in Threads : mainpc'[u] = "exited" <=> mainpc[u] = "exited"
  /\ threw => threw'

LEMMA MovesKeep ==
  ASSUME SuspendInv, SharedInv, NEW t \in Threads, Moves(t)
  PROVE  SuspendInv' /\ SharedInv'
BY DEF Moves, SuspendInv, SharedInv, Awake

LEMMA StillKeeps ==
  ASSUME SuspendInv, SharedInv, Still
  PROVE  SuspendInv' /\ SharedInv'
BY DEF Still, SuspendInv, SharedInv, Awake

(* Whatever the scheduler, awakened() adds to the queue of the thread or   *)
(* to the shared queue, if there is one.                                   *)
LEMMA AwakenedMoves ==
  ASSUME RuntimeTypeOK, NEW t \in Threads, NEW ctx, Awakened(t, ctx)
  PROVE  /\ \A u \in Threads \ {t} : local'[u] = local[u]
         /\ sched # "shared_work" => shared' = shared
BY DEF RuntimeTypeOK, Awakened, RR!Awakened, SW!Awakened, WS!Awakened

(* Whatever the scheduler, pick_next() fills no queue, and returns the null*)
(* pointer only when the thread has no ready context, shared or its own.   *)
LEMMA PickNextMoves ==
  ASSUME RuntimeTypeOK, NEW t \in Threads, NEW ctx, PickNext(t, ctx)
  PROVE  /\ \A u \in Threads : local[u] = << >> => local'[u] = << >>
         /\ sched # "shared_work" => shared' = shared
         /\ ctx = NoCtx => /\ local[t] = << >>
                           /\ sched = "shared_work" => shared' = << >>
<1>a. \A s \in Seq(Ctx) : s # << >> => Head(s) # NoCtx
  BY HeadTailProperties, ContextAssumption
<1>b. /\ shared \in Seq(Ctx) /\ \A u \in Threads : local[u] \in Seq(Ctx)
      /\ \A v \in Threads : local[v] # << >> =>
           \A u \in Threads : local[u] = << >> =>
             [local EXCEPT ![v] = Tail(@)][u] = << >>
  BY DEF RuntimeTypeOK
<1>1. CASE sched = "round_robin" /\ RR!PickNext(t, ctx) /\ shared' = shared
  BY <1>a, <1>b, <1>1 DEF RR!PickNext
<1>2. CASE sched = "shared_work" /\ SW!PickNext(t, ctx)
  BY <1>a, <1>b, <1>2 DEF SW!PickNext
<1>3. CASE sched = "work_stealing" /\ WS!PickNext(t, ctx) /\ shared' = shared
  <2>1. \A k \in Threads : schedulers[k] \subseteq Threads
    BY DEF RuntimeTypeOK
  <2>2. CASE /\ local[t] # << >> /\ ctx = Head(local[t])
             /\ local' = [local EXCEPT ![t] = Tail(@)]
    BY <1>a, <1>b, <1>3, <2>2
  <2>3. CASE local[t] = << >> /\ local' = local
    BY <1>3, <2>3
  <2>4. ASSUME local[t] = << >>, NEW v \in Threads, WS!Steal(v, ctx)
        PROVE  \A u \in Threads : local[u] = << >> => local'[u] = << >>
    BY <1>b, <2>4 DEF WS!Steal
  <2> QED BY <1>3, <2>1, <2>2, <2>3, <2>4 DEF WS!PickNext
<1> QED BY <1>1, <1>2, <1>3 DEF PickNext

(* A thread that runs another context than its dispatcher does not wait.   *)
LEMMA RunsAwake ==
  ASSUME SuspendInv, NEW t \in Threads, NEW c \in Ctx, Runs(t, c), c # Disp(t)
  PROVE  Awake(t)
BY ContextAssumption DEF SuspendInv, Runs, Awake

(* Neither does it after a context switch.                                 *)
LEMMA SwitchMoves ==
  ASSUME RuntimeTypeOK, SuspendInv, NEW t \in Threads, NEW c \in Ctx,
         Runs(t, c), c # Disp(t), NEW back, Switch(t, back),
         UNCHANGED <<sched, dpc>>, mainpc'[t] # "exited",
         \A u \in Threads \ {t} : mainpc'[u] = mainpc[u]
  PROVE  Moves(t)
<1>1. Awake(t)
  BY RunsAwake
<1>2. /\ \A u \in Threads : local[u] = << >> => local'[u] = << >>
      /\ sched # "shared_work" => shared' = shared
  BY PickNextMoves DEF Switch
<1>3. \A u \in Threads \ {t} :
        active'[u] = active[u] /\ handover'[u] = handover[u]
  BY DEF Switch, RuntimeTypeOK
<1> QED BY <1>1, <1>2, <1>3 DEF Moves, Awake

(* The steps of the runtime.                                               *)
LEMMA RuntimeStepSuspend ==
  ASSUME TypeOK, PoolInv, HolderInv, SuspendInv, SharedInv,
         NEW t \in Threads, RuntimeStep(t)
  PROVE  SuspendInv' /\ SharedInv'
<1>a. RuntimeTypeOK /\ PoolTypeOK
  BY DEF TypeOK
<1>b. Disp(t) \in Ctx /\ NoCtx \notin Ctx
  BY ContextAssumption DEF Ctx, Pinned
<1>1. CASE Handover(t)
  <2>1. Awake(t) /\ UNCHANGED <<mainpc, dpc, active, sched>>
    BY <1>1 DEF Handover, SuspendInv, Awake, runVars, setupVars, poolVars
  <2>2. /\ \A u \in Threads \ {t} : local'[u] = local[u]
        /\ sched # "shared_work" => shared' = shared
    BY <1>1, <1>a, AwakenedMoves DEF Handover
  <2>3. \A u \in Threads \ {t} : handover'[u] = handover[u]
    BY <1>1, <1>a DEF Handover, RuntimeTypeOK
  <2>4. Moves(t)
    BY <2>1, <2>2, <2>3 DEF Moves, Awake
  <2> QED BY <2>4, MovesKeep
<1>2. CASE DispatchTop(t)
  <2>1. /\ mainpc[t] # "exited"
        /\ UNCHANGED <<mainpc, active, handover, sched>>
    BY <1>2, <1>b DEF DispatchTop, SuspendInv, Runs, runVars, setupVars,
                      poolVars
  <2>2. /\ \A u \in Threads \ {t} : local'[u] = local[u]
        /\ sched # "shared_work" => shared' = shared
    BY <1>2, <1>a, AwakenedMoves DEF DispatchTop, queueVars
  <2>3. dpc'[t] = "pick" /\ \A u \in Threads \ {t} : dpc'[u] = dpc[u]
    BY <1>2, <1>a DEF DispatchTop, RuntimeTypeOK
  <2>4. Moves(t)
    BY <2>1, <2>2, <2>3 DEF Moves, Awake
  <2> QED BY <2>4, MovesKeep
<1>3. CASE DispatchPick(t)
  <2>1. /\ mainpc[t] # "exited" /\ UNCHANGED <<mainpc, threw, sched>>
        /\ active[t] = Disp(t) /\ handover[t] = NoCtx
    BY <1>3, <1>b DEF DispatchPick, SuspendInv, Runs, runVars, setupVars,
                      poolVars
  <2>2. PICK ctx \in Ctx \cup {NoCtx} :
          /\ PickNext(t, ctx)
          /\ IF ctx = NoCtx
             THEN /\ dpc' = [dpc EXCEPT ![t] = "suspend"]
                  /\ UNCHANGED <<active, handover>>
             ELSE /\ dpc' = [dpc EXCEPT ![t] = "top"]
                  /\ active' = [active EXCEPT ![t] = ctx]
                  /\ handover' = [handover EXCEPT ![t] = Disp(t)]
    BY <1>3 DEF DispatchPick
  <2>3. /\ \A u \in Threads : local[u] = << >> => local'[u] = << >>
        /\ sched # "shared_work" => shared' = shared
        /\ ctx = NoCtx => /\ local[t] = << >>
                          /\ sched = "shared_work" => shared' = << >>
    BY <1>a, <2>2, PickNextMoves
  <2>4. CASE ctx = NoCtx
    <3>1. shared' = << >>
      BY <2>3, <2>4 DEF SharedInv
    <3>2. /\ dpc'[t] = "suspend"
          /\ \A u \in Threads \ {t} : dpc'[u] = dpc[u]
      BY <1>a, <2>2, <2>4 DEF RuntimeTypeOK
    <3>3. SuspendInv'
      BY <2>1, <2>2, <2>3, <2>4, <3>2 DEF SuspendInv
    <3> QED BY <2>1, <3>1, <3>3 DEF SharedInv
  <2>5. CASE ctx # NoCtx
    <3>1. /\ dpc'[t] = "top"
          /\ \A u \in Threads \ {t} :
               /\ dpc'[u] = dpc[u] /\ active'[u] = active[u]
               /\ handover'[u] = handover[u]
      BY <1>a, <2>2, <2>5 DEF RuntimeTypeOK
    <3>2. Moves(t)
      BY <2>1, <2>3, <3>1 DEF Moves, Awake
    <3> QED BY <3>2, MovesKeep
  <2> QED BY <2>4, <2>5
<1>4. CASE DispatchSuspend(t)
  <2>1. /\ mainpc[t] # "exited"
        /\ UNCHANGED <<mainpc, active, handover, sched, shared, local>>
    BY <1>4, <1>b DEF DispatchSuspend, SuspendInv, Runs, runVars, setupVars,
                      poolVars, queueVars
  <2>2. dpc'[t] = "top" /\ \A u \in Threads \ {t} : dpc'[u] = dpc[u]
    BY <1>4, <1>a DEF DispatchSuspend, RuntimeTypeOK
  <2>3. Moves(t)
    BY <2>1, <2>2 DEF Moves, Awake
  <2> QED BY <2>3, MovesKeep
<1>5. CASE DispatchExit(t)
  <2>1. /\ UNCHANGED <<handover, dpc, shared, local, threw, sched>>
        /\ dpc[t] = "top" /\ handover[t] = NoCtx
        /\ active' = [active EXCEPT ![t] = NoCtx]
        /\ mainpc' = [mainpc EXCEPT ![t] = "exited"]
        /\ mainpc[t] = "exiting"
    BY <1>5 DEF DispatchExit, Runs, queueVars, setupVars, poolVars
  <2>2. SuspendInv'
    BY <1>a, <2>1 DEF SuspendInv, RuntimeTypeOK, PoolTypeOK
  <2>3. ~threw => shared = << >>
    <3> SUFFICES ASSUME ~threw, shared # << >>
                 PROVE  FALSE
      OBVIOUS
    <3>1. Unfinished = {}
      BY <1>a, <2>1, PastMeansDone DEF PoolInv, PassTogether, PastFinishLine
    <3>2. PICK x \in Ctx : In(x, shared)
      BY <1>a, TailPlaces DEF RuntimeTypeOK, HolderInv, PlaceInv, QueueInv
    <3>3. x \in Fibers /\ Resting(x)
      BY <3>2 DEF HolderInv, PlaceInv, QueueInv, Ctx, Resting, Queued
    <3>4. work[x] = "launched"
      BY <3>3 DEF HolderInv, HeldInv
    <3> QED BY <3>1, <3>3, <3>4 DEF Unfinished
  <2> QED BY <2>1, <2>2, <2>3 DEF SharedInv
<1> QED BY <1>1, <1>2, <1>3, <1>4, <1>5 DEF RuntimeStep

(* The steps of the fibers.                                                *)
LEMMA FiberStepSuspend ==
  ASSUME TypeOK, SuspendInv, SharedInv, NEW t \in Threads, FiberStep(t)
  PROVE  SuspendInv' /\ SharedInv'
<1> USE ThreadZero
<1>a. RuntimeTypeOK /\ PoolTypeOK
  BY DEF TypeOK
<1> PICK f \in Fibers :
       FiberYield(t, f) \/ FiberDone(t, f) \/ FiberTerminate(t, f)
  BY DEF FiberStep
<1>b. f \in Ctx /\ f # Disp(t)
  BY ContextAssumption DEF Ctx, Pinned
<1>c. Runs(t, f)
  BY DEF FiberYield, FiberDone, FiberTerminate
<1>d. Awake(t)
  BY <1>b, <1>c, RunsAwake
<1>1. CASE FiberYield(t, f) \/ FiberTerminate(t, f)
  <2>1. UNCHANGED <<sched, dpc, mainpc>>
    BY <1>1 DEF FiberYield, FiberTerminate, setupVars, poolVars, runVars
  <2>2. \E back : Switch(t, back)
    BY <1>1 DEF FiberYield, FiberTerminate
  <2>3. Moves(t)
    BY <1>a, <1>b, <1>c, <1>d, <2>1, <2>2, SwitchMoves DEF Awake
  <2> QED BY <2>3, MovesKeep
<1>2. CASE FiberDone(t, f)
  <2>1. UNCHANGED <<sched, active, handover, dpc>>
    BY <1>2 DEF FiberDone, threadVars, setupVars, poolVars
  <2>2. mainpc' = mainpc \/ (mainpc[0] = "getwait"
                               /\ mainpc' = [mainpc EXCEPT ![0] = "get"])
    BY <1>2 DEF FiberDone
  <2>3. \A u \in Threads : mainpc'[u] = "exited" <=> mainpc[u] = "exited"
    BY <1>a, <2>2 DEF PoolTypeOK
  <2>4. Awakened(t, Main(t)) \/ UNCHANGED queueVars
    BY <1>2 DEF FiberDone
  <2>5. /\ \A u \in Threads \ {t} : local'[u] = local[u]
        /\ sched # "shared_work" => shared' = shared
    BY <1>a, <2>4, AwakenedMoves DEF queueVars
  <2>6. Moves(t)
    BY <1>d, <2>1, <2>3, <2>5 DEF Moves, Awake
  <2> QED BY <2>6, MovesKeep
<1> QED BY <1>1, <1>2

(* The steps of run(i).                                                    *)
LEMMA MainStepSuspend ==
  ASSUME TypeOK, SuspendInv, SharedInv, NEW t \in Threads, MainStep(t)
  PROVE  SuspendInv' /\ SharedInv'
<1> USE ThreadZero
<1>a. RuntimeTypeOK /\ PoolTypeOK
  BY DEF TypeOK
<1>b. Main(t) \in Ctx /\ Main(t) # Disp(t)
  BY DEF Ctx, Pinned, Main, Disp
(* The main context does not give up its thread.                           *)
<1>1. ASSUME UNCHANGED <<sched, threadVars, queueVars>>, threw' = threw,
             \A u \in Threads : mainpc'[u] = "exited" <=> mainpc[u] = "exited"
      PROVE  SuspendInv' /\ SharedInv'
  <2>1. Still
    BY <1>1 DEF Still, threadVars, queueVars
  <2> QED BY <2>1, StillKeeps
(* It does.                                                                *)
<1>2. ASSUME Runs(t, Main(t)), Switch(t, NoCtx), UNCHANGED <<sched, dpc>>,
             NEW w \in {"popwait", "getwait", "finishwait", "exiting"},
             mainpc' = [mainpc EXCEPT ![t] = w]
      PROVE  SuspendInv' /\ SharedInv'
  <2>1. /\ mainpc'[t] # "exited"
        /\ \A u \in Threads \ {t} : mainpc'[u] = mainpc[u]
    BY <1>2, <1>a DEF PoolTypeOK
  <2>2. Moves(t)
    BY <1>2, <1>a, <1>b, <2>1, SwitchMoves
  <2> QED BY <2>2, MovesKeep
<1>3. CASE \/ UseSchedulingAlgorithm(t) \/ ConstructorBarrier(t)
           \/ StartingBlock(t)
  <2>1. /\ UNCHANGED <<sched, threadVars, queueVars, threw>>
        /\ mainpc[t] \in {"new", "constructed", "start"}
        /\ \E w \in {"constructed", "start", "pop", "finish"} :
             mainpc' = [mainpc EXCEPT ![t] = w]
    BY <1>3 DEF UseSchedulingAlgorithm, ConstructorBarrier, StartingBlock,
                setupVars, poolVars
  <2> QED BY <1>1, <1>a, <2>1 DEF PoolTypeOK
<1>4. CASE FinishLine(t)
  <2>1. UNCHANGED <<sched, dpc, threw>> /\ Runs(t, Main(t))
        /\ mainpc[t] = "finish"
    BY <1>4 DEF FinishLine, setupVars, poolVars
  <2>2. CASE /\ \A u \in Threads \ {t} : mainpc[u] = "finishwait"
             /\ mainpc' = [u \in Threads |-> "released"]
             /\ UNCHANGED <<active, handover, queueVars>>
    <3>1. \A u \in Threads : mainpc'[u] = "exited" <=> mainpc[u] = "exited"
      BY <2>1, <2>2
    <3> QED BY <1>1, <2>1, <2>2, <3>1 DEF threadVars
  <2>3. CASE mainpc' = [mainpc EXCEPT ![t] = "finishwait"] /\ Switch(t, NoCtx)
    BY <1>2, <2>1, <2>3
  <2> QED BY <1>4, <2>2, <2>3 DEF FinishLine
<1>5. CASE RunReturns(t)
  BY <1>2, <1>5 DEF RunReturns, setupVars, poolVars
<1>6. ASSUME t = 0, NEW f \in Fibers, PopWork(f)
      PROVE  SuspendInv' /\ SharedInv'
  <2>1. Awake(t)
    BY <1>6, <1>b, RunsAwake DEF PopWork
  <2>2. /\ UNCHANGED <<sched, dpc, mainpc, shared, local>>
        /\ active' = [active EXCEPT ![t] = f]
        /\ handover' = [handover EXCEPT ![t] = Main(0)]
    BY <1>6 DEF PopWork, setupVars, poolVars, queueVars
  <2>3. \A u \in Threads \ {t} :
          active'[u] = active[u] /\ handover'[u] = handover[u]
    BY <1>a, <2>2 DEF RuntimeTypeOK
  <2>4. Moves(t)
    BY <2>1, <2>2, <2>3 DEF Moves, Awake
  <2> QED BY <2>4, MovesKeep
<1>7. CASE t = 0 /\ PopEmpty
  <2>1. UNCHANGED <<sched, dpc, threw>> /\ Runs(t, Main(t))
        /\ mainpc[t] = "pop"
    BY <1>7 DEF PopEmpty, setupVars, poolVars
  <2>2. CASE /\ mainpc' = [mainpc EXCEPT ![t] = "get"]
             /\ UNCHANGED <<active, handover, queueVars>>
    BY <1>1, <1>a, <2>1, <2>2 DEF threadVars, PoolTypeOK
  <2>3. CASE mainpc' = [mainpc EXCEPT ![t] = "popwait"] /\ Switch(t, NoCtx)
    BY <1>2, <2>1, <2>3
  <2> QED BY <1>7, <2>2, <2>3 DEF PopEmpty
<1>8. CASE t = 0 /\ GetFuture
  <2>1. UNCHANGED <<sched, dpc>> /\ Runs(t, Main(t))
    BY <1>8 DEF GetFuture, setupVars, poolVars
  <2>2. CASE UNCHANGED <<mainpc, threw, active, handover, queueVars>>
    BY <1>1, <2>1, <2>2 DEF threadVars
  <2>3. CASE mainpc' = [mainpc EXCEPT ![t] = "getwait"] /\ Switch(t, NoCtx)
    BY <1>2, <2>1, <2>3
  <2>4. CASE mainpc' = [mainpc EXCEPT ![t] = "exiting"] /\ Switch(t, NoCtx)
    BY <1>2, <2>1, <2>4
  <2> QED BY <1>8, <2>2, <2>3, <2>4 DEF GetFuture
<1>9. CASE t = 0 /\ GetDone
  <2>1. /\ UNCHANGED <<sched, threadVars, queueVars, threw>>
        /\ mainpc[t] = "get" /\ mainpc' = [mainpc EXCEPT ![t] = "finish"]
    BY <1>9 DEF GetDone, setupVars, poolVars
  <2> QED BY <1>1, <1>a, <2>1 DEF PoolTypeOK
<1> QED
  BY <1>3, <1>4, <1>5, <1>6, <1>7, <1>8, <1>9 DEF MainStep

(* The client moves nothing.                                               *)
LEMMA ClientSuspend ==
  ASSUME TypeOK, SuspendInv, SharedInv, ClientStep \/ ClientCall
  PROVE  SuspendInv' /\ SharedInv'
<1> USE ThreadZero
<1>1. UNCHANGED <<sched, threadVars, queueVars, threw>>
  BY DEF ClientStep, ClientCall, Spawn, ConstructorArrives, ConstructorReturns,
         JoinGet, JoinReturns, Submit, Close, Join, Destroy, EnterJoin,
         setupVars, poolVars, runVars
<1>2. \/ mainpc' = mainpc
      \/ \E t \in Threads :
           mainpc[t] = "unborn" /\ mainpc' = [mainpc EXCEPT ![t] = "new"]
      \/ mainpc[0] = "popwait" /\ mainpc' = [mainpc EXCEPT ![0] = "pop"]
  BY DEF ClientStep, ClientCall, Spawn, ConstructorArrives, ConstructorReturns,
         JoinGet, JoinReturns, Submit, Close, Join, Destroy, EnterJoin,
         WakeConsumer, runVars
<1>3. \A u \in Threads : mainpc'[u] = "exited" <=> mainpc[u] = "exited"
  BY <1>2 DEF TypeOK, PoolTypeOK
<1>4. Still
  BY <1>1, <1>3 DEF Still, threadVars, queueVars
<1> QED BY <1>4, StillKeeps

(* Who waits, waits for a wake-up, in every reachable state.               *)
THEOREM SuspendInvariant == Spec => [](SuspendInv /\ SharedInv)
<1>1. Init => SuspendInv /\ SharedInv
  BY DEF Init, SuspendInv, SharedInv, SW!CreatePoolCtx
<1>2. TypeOK /\ PoolInv /\ HolderInv /\ SuspendInv /\ SharedInv /\ [Next]_vars
        => SuspendInv' /\ SharedInv'
  <2> SUFFICES ASSUME TypeOK, PoolInv, HolderInv, SuspendInv, SharedInv,
                      [Next]_vars
               PROVE  SuspendInv' /\ SharedInv'
    OBVIOUS
  <2>1. CASE UNCHANGED vars
    <3>1. Still
      BY <2>1 DEF vars, Still, poolVars, threadVars, queueVars, runVars
    <3> QED BY <3>1, StillKeeps
  <2> QED
    BY <2>1, RuntimeStepSuspend, FiberStepSuspend, MainStepSuspend,
       ClientSuspend DEF Next, ThreadStep, Ended
<1> QED BY <1>1, <1>2, PoolInvariant, HolderInvariant, PTL DEF Spec

-----------------------------------------------------------------------------
(* Nobody waits for ever. *)

(* A thread that sleeps has nothing of its own left to run.                *)
LEMMA SleeperBlocked ==
  ASSUME TypeOK, HolderInv, NoLostWakeup, SuspendInv, NEW t \in Threads,
         Sleeps(t)
  PROVE  Blocked(t) /\ active[t] = Disp(t) /\ handover[t] = NoCtx
           /\ local[t] = << >>
<1>1. /\ dpc[t] = "suspend" /\ active[t] = Disp(t) /\ handover[t] = NoCtx
      /\ local[t] = << >> /\ ~remote[t]
  BY DEF Sleeps, SuspendInv, NoLostWakeup
<1>2. Main(t) \in Ctx /\ Main(t) \in Pinned /\ Home(Main(t), t)
      /\ Main(t) # Disp(t) /\ Main(t) # NoCtx
  BY ContextAssumption DEF Ctx, Pinned, Home, Main, Disp
<1>3. ~Queued(Main(t))
  <2>1. ~In(Main(t), << >>)
    BY DEF In
  <2> QED
    BY <1>1, <1>2, <2>1 DEF HolderInv, PlaceInv, QueueInv, Queued
<1>4. \A u \in Threads : active[u] # Main(t) /\ handover[u] # Main(t)
  BY <1>1, <1>2 DEF HolderInv, PlaceInv
<1>5. ~Held(Main(t))
  BY <1>3, <1>4 DEF Held, Resting
<1> QED BY <1>1, <1>5 DEF HolderInv, HeldInv

(* When all the threads wait, and none for the start of another, no fiber  *)
(* is left to be run, unless a work has thrown.                            *)
LEMMA AllWaitNoFiber ==
  ASSUME TypeOK, PoolInv, HolderInv, SuspendInv, SharedInv, ~threw,
         \A t \in Threads : Sleeps(t) \/ mainpc[t] = "exited",
         NEW f \in Fibers
  PROVE  work[f] # "launched"
<1>1. CASE \E t \in Threads : mainpc[t] = "exited"
  <2>1. Unfinished = {}
    BY <1>1, PastMeansDone
       DEF TypeOK, PoolInv, PassTogether, PastFinishLine
  <2> QED BY <2>1 DEF Unfinished
<1>2. CASE \A t \in Threads : mainpc[t] # "exited"
  <2>1. \A t \in Threads : /\ dpc[t] = "suspend" /\ active[t] = Disp(t)
                           /\ handover[t] = NoCtx /\ local[t] = << >>
    BY <1>2 DEF Sleeps, SuspendInv
  <2>2. shared = << >>
    BY <2>1 DEF SharedInv, Awake
  <2>3. f # NoCtx /\ \A t \in Threads : f # Disp(t)
    BY ContextAssumption DEF Ctx, Pinned
  <2>4. ~In(f, << >>)
    BY DEF In
  <2>5. ~Held(f)
    BY <2>1, <2>2, <2>3, <2>4 DEF Held, Resting, Queued
  <2> QED BY <2>5 DEF HolderInv, HeldInv
<1> QED BY <1>1, <1>2

(* The pool never deadlocks: whatever the number of threads, the scheduler *)
(* and the works, when no thread can go on the client can, and no work is  *)
(* left in the middle, unless one has thrown.                              *)
THEOREM PoolNeverDeadlocks == Spec => []NoDeadlock
<1>1. TypeOK /\ PoolInv /\ HolderInv /\ NoLostWakeup /\ StageInv /\ SuspendInv
        /\ SharedInv => NoDeadlock
  <2> SUFFICES ASSUME TypeOK, PoolInv, HolderInv, NoLostWakeup, StageInv,
                      SuspendInv, SharedInv, \A t \in Threads : Waits(t)
               PROVE  /\ ~ClientWaits
                      /\ ~threw => \A f \in Fibers : work[f] # "launched"
    BY DEF NoDeadlock
  <2> USE ThreadZero
  <2>a. \A t \in Threads : Sleeps(t) => Blocked(t)
    BY SleeperBlocked
  <2>1. CASE cpc = "ctor"
    BY <2>1 DEF ClientWaits, StageInv, StartInv
  <2>2. CASE cpc = "started"
    <3>1. \A t \in Threads : mainpc[t] \notin {"unborn", "new"}
      BY <2>a, <2>2 DEF StageInv, StartInv, Waits, Blocked
    <3>2. \A t \in Threads : mainpc[t] # "constructed"
      BY <2>a, <3>1 DEF Waits, Blocked
    <3> QED BY <2>2, <3>1, <3>2 DEF ClientWaits, StageInv, StartInv
  <2>3. CASE cpc \notin {"ctor", "started"}
    <3>1. \A t \in Threads : Sleeps(t) \/ mainpc[t] = "exited"
      BY <2>3 DEF StageInv, StartInv, Starting, Waits
    <3>2. \A t \in Threads : Blocked(t)
      BY <2>a, <3>1 DEF Blocked
    <3>3. ~threw => \A f \in Fibers : work[f] # "launched"
      BY <3>1, AllWaitNoFiber
    <3>4. cpc # "push"
      <4> SUFFICES ASSUME cpc = "push"
                   PROVE  FALSE
        OBVIOUS
      <4>1. ~closed /\ mainpc[0] # "popwait"
        BY DEF StageInv, ReceiveInv, PoolInv, OneOffer
      <4>2. mainpc[0] \notin {"getwait", "finishwait", "exiting", "exited"}
        BY <4>1 DEF PoolInv, CollectsAll
      <4> QED BY <3>2, <4>1, <4>2 DEF Blocked
    <3>5. ASSUME cpc \in {"join", "dtor"}, jidx < ThreadNumber, jidx \notin got
          PROVE  RunReturned(jidx)
      <4>1. jidx \in Threads
        <5>1. jidx \in 0 .. ThreadNumber
          BY DEF TypeOK, PoolTypeOK
        <5> QED BY <3>5, <5>1, PoolAssumption DEF Threads
      <4>2. CASE threw
        <5>1. jidx = 0
          BY <2>3, <3>5, <4>1, <4>2 DEF PoolInv, JoinedInOrder, Threads
        <5> QED BY <4>2, <5>1 DEF StageInv, FinishInv, RunReturned
      <4>3. CASE ~threw
        <5>1. closed
          BY <3>5 DEF PoolInv, JoinedInOrder
        <5>2. mainpc[0] # "popwait"
          BY <5>1 DEF StageInv, ReceiveInv
        <5>3. mainpc[0] # "getwait"
          <6> SUFFICES ASSUME mainpc[0] = "getwait"
                       PROVE  FALSE
            OBVIOUS
          <6>1. futures # << >> /\ work[Head(futures)] = "launched"
            BY DEF StageInv, ReceiveInv
          <6>2. Head(futures) \in Fibers
            BY <6>1, HeadTailProperties DEF TypeOK, PoolTypeOK
          <6> QED BY <3>3, <4>3, <6>1, <6>2
        <5>4. CASE mainpc[0] = "finishwait"
          <6>1. \A t \in Threads : ~PastFinishLine(t)
            BY <4>3, <5>4 DEF PoolInv, PassTogether, PastFinishLine
          <6>2. \A t \in Threads : mainpc[t] = "finishwait"
            BY <3>2, <5>4, <6>1
               DEF Blocked, PastFinishLine, StageInv, ReceiveInv
          <6> QED BY <6>2 DEF StageInv, FinishInv
        <5>5. CASE mainpc[0] \in {"exiting", "exited"}
          <6>1. PastFinishLine(jidx)
            BY <4>1, <4>3, <5>5 DEF StageInv, FinishInv, PastFinishLine
          <6> QED BY <3>2, <4>1, <6>1 DEF PastFinishLine, Blocked, RunReturned
        <5> QED BY <3>2, <5>2, <5>3, <5>4, <5>5 DEF Blocked
      <4> QED BY <4>2, <4>3
    <3> QED BY <2>3, <3>3, <3>4, <3>5 DEF ClientWaits
  <2> QED BY <2>1, <2>2, <2>3
<1> QED
  BY <1>1, PoolInvariant, HolderInvariant, WakeupCorrect, StageInvariant,
     SuspendInvariant, PTL
=============================================================================
