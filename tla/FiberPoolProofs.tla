--------------------------- MODULE FiberPoolProofs ---------------------------
(***************************************************************************)
(* Proofs about class fiber_pool, for any number of threads and works and  *)
(* for each of its schedulers: first about the pool and its works, then    *)
(* about the scheduling algorithms inside it: the start-up of the          *)
(* work-stealing schedulers, the wake-up of a sleeping thread, and that    *)
(* there is always a context to resume.                                    *)
(***************************************************************************)
EXTENDS FiberPoolProperties, FiniteSetTheorems, SequenceTheorems, TLAPS

-----------------------------------------------------------------------------
(* Types. *)

(* The thread that receives the work exists. *)
LEMMA ThreadZero == 0 \in Threads
BY PoolAssumption DEF Threads

(* What the queues of the runtime may become. *)
QueuesTyped == shared' \in Seq(Ctx) /\ local' \in [Threads -> Seq(Ctx)]

(* A push to, or a pop from, the queue of one thread.                      *)
LEMMA PushType ==
  ASSUME RuntimeTypeOK, NEW t \in Threads, NEW ctx \in Ctx
  PROVE  [local EXCEPT ![t] = Append(@, ctx)] \in [Threads -> Seq(Ctx)]
<1>1. Append(local[t], ctx) \in Seq(Ctx)
  BY AppendProperties DEF RuntimeTypeOK
<1> QED BY <1>1 DEF RuntimeTypeOK

LEMMA PopType ==
  ASSUME RuntimeTypeOK, NEW t \in Threads, local[t] # << >>
  PROVE  [local EXCEPT ![t] = Tail(@)] \in [Threads -> Seq(Ctx)]
<1>1. Tail(local[t]) \in Seq(Ctx)
  BY HeadTailProperties DEF RuntimeTypeOK
<1> QED BY <1>1 DEF RuntimeTypeOK

(* Whatever the scheduler, awakened() keeps the types of the queues.       *)
LEMMA AwakenedType ==
  ASSUME RuntimeTypeOK, NEW t \in Threads, NEW ctx \in Ctx, Awakened(t, ctx)
  PROVE  QueuesTyped
<1>1. Append(shared, ctx) \in Seq(Ctx)
  BY AppendProperties DEF RuntimeTypeOK
<1>2. CASE shared' = shared /\ local' = [local EXCEPT ![t] = Append(@, ctx)]
  BY <1>2, PushType DEF RuntimeTypeOK, QueuesTyped
<1>3. CASE shared' = Append(shared, ctx) /\ local' = local
  BY <1>1, <1>3 DEF RuntimeTypeOK, QueuesTyped
<1> QED
  BY <1>2, <1>3 DEF Awakened, RR!Awakened, SW!Awakened, WS!Awakened

(* Whatever the scheduler, pick_next() keeps the types of the queues.      *)
LEMMA PickNextType ==
  ASSUME RuntimeTypeOK, NEW t \in Threads, NEW ctx, PickNext(t, ctx)
  PROVE  QueuesTyped
<1>1. CASE shared' = shared /\ local' = local
  BY <1>1 DEF RuntimeTypeOK, QueuesTyped
<1>2. CASE shared # << >> /\ shared' = Tail(shared) /\ local' = local
  BY <1>2, HeadTailProperties DEF RuntimeTypeOK, QueuesTyped
<1>3. CASE /\ shared' = shared
           /\ \E v \in Threads : /\ local[v] # << >>
                                 /\ local' = [local EXCEPT ![v] = Tail(@)]
  BY <1>3, PopType DEF RuntimeTypeOK, QueuesTyped
<1>4. CASE sched = "round_robin" /\ RR!PickNext(t, ctx) /\ shared' = shared
  BY <1>1, <1>3, <1>4 DEF RR!PickNext
<1>5. CASE sched = "shared_work" /\ SW!PickNext(t, ctx)
  BY <1>1, <1>2, <1>3, <1>5 DEF SW!PickNext
<1>6. CASE sched = "work_stealing" /\ WS!PickNext(t, ctx) /\ shared' = shared
  <2>1. \A k \in Threads : schedulers[k] \subseteq Threads
    BY DEF RuntimeTypeOK
  <2> QED
    BY <1>1, <1>3, <1>6, <2>1 DEF WS!PickNext, WS!Steal
<1> QED BY <1>4, <1>5, <1>6 DEF PickNext

(* A context switch keeps the types of what it writes.                     *)
LEMMA SwitchType ==
  ASSUME RuntimeTypeOK, NEW t \in Threads, NEW back \in Ctx \cup {NoCtx},
         Switch(t, back)
  PROVE  /\ active' \in [Threads -> Ctx \cup {NoCtx}]
         /\ handover' \in [Threads -> Ctx \cup {NoCtx}]
         /\ QueuesTyped
BY PickNextType DEF Switch, RuntimeTypeOK

(* Waking threads keeps the types of what the waker writes.                *)
LEMMA WakeType ==
  ASSUME RuntimeTypeOK, NEW S, Notify(S) \/ WakeRemote(S)
  PROVE  /\ flag' \in [Threads -> BOOLEAN]
         /\ WakeRemote(S) => remote' \in [Threads -> BOOLEAN]
<1>1. Notify(S)
  BY DEF WakeRemote
<1>2. flag' \in [Threads -> BOOLEAN]
  BY <1>1
     DEF RuntimeTypeOK, Notify, RR!Notify, SW!Notify, WS!Notify
<1>3. WakeRemote(S) => remote' \in [Threads -> BOOLEAN]
  BY DEF RuntimeTypeOK, WakeRemote
<1> QED BY <1>2, <1>3

(* The steps of the runtime keep the types of its variables.               *)
LEMMA RuntimeStepType ==
  ASSUME RuntimeTypeOK, NEW t \in Threads, RuntimeStep(t)
  PROVE  RuntimeTypeOK'
<1> USE DEF RuntimeTypeOK, poolVars, setupVars, wakeVars, stealVars, queueVars
<1>a. Main(t) \in Ctx /\ Disp(t) \in Ctx
  BY DEF Ctx, Pinned
<1>1. CASE Handover(t)
  BY <1>1, AwakenedType DEF Handover, QueuesTyped
<1>2. CASE DispatchTop(t)
  <2>1. QueuesTyped
    BY <1>a, <1>2, AwakenedType DEF DispatchTop, QueuesTyped
  <2>2. flag' \in [Threads -> BOOLEAN]
    BY <1>2, WakeType DEF DispatchTop
  <2> QED BY <1>2, <2>1, <2>2 DEF DispatchTop, QueuesTyped
<1>3. CASE DispatchPick(t)
  BY <1>a, <1>3, PickNextType DEF DispatchPick, QueuesTyped
<1>4. CASE DispatchSuspend(t)
  BY <1>4 DEF DispatchSuspend, SuspendUntil, RR!SuspendUntil,
              SW!SuspendUntil, WS!SuspendUntil
<1>5. CASE DispatchExit(t)
  BY <1>5, WakeType DEF DispatchExit
<1> QED BY <1>1, <1>2, <1>3, <1>4, <1>5 DEF RuntimeStep

(* So do the steps of the fibers...                                        *)
LEMMA FiberStepType ==
  ASSUME RuntimeTypeOK, NEW t \in Threads, FiberStep(t)
  PROVE  RuntimeTypeOK'
<1> USE DEF RuntimeTypeOK, poolVars, setupVars, wakeVars, stealVars,
            queueVars, threadVars
<1>a. Fibers \subseteq Ctx /\ 0 \in Threads /\ Main(0) \in Ctx
  BY ThreadZero DEF Ctx, Pinned
<1> PICK f \in Fibers :
       FiberYield(t, f) \/ FiberDone(t, f) \/ FiberTerminate(t, f)
  BY DEF FiberStep
<1>1. CASE FiberYield(t, f)
  BY <1>a, <1>1, SwitchType DEF FiberYield, QueuesTyped
<1>2. CASE FiberDone(t, f)
  <2>1. QueuesTyped
    BY <1>a, <1>2, AwakenedType DEF FiberDone, QueuesTyped
  <2>2. flag' \in [Threads -> BOOLEAN] /\ remote' \in [Threads -> BOOLEAN]
    BY <1>2, WakeType DEF FiberDone, NoWake
  <2> QED BY <1>2, <2>1, <2>2 DEF FiberDone, QueuesTyped
<1>3. CASE FiberTerminate(t, f)
  BY <1>a, <1>3, SwitchType DEF FiberTerminate, QueuesTyped
<1> QED BY <1>1, <1>2, <1>3

(* ... those of run(i)...                                                  *)
LEMMA MainStepType ==
  ASSUME RuntimeTypeOK, NEW t \in Threads, MainStep(t)
  PROVE  RuntimeTypeOK'
<1> USE DEF RuntimeTypeOK, poolVars, setupVars, wakeVars, stealVars,
            queueVars, threadVars
<1>a. Fibers \subseteq Ctx /\ 0 \in Threads /\ Main(0) \in Ctx
  BY ThreadZero DEF Ctx, Pinned
<1>1. CASE UseSchedulingAlgorithm(t)
  <2>1. CASE sched = "work_stealing"
    <3>1. [schedulers EXCEPT ![counter] = {t}] \in [Threads -> SUBSET Threads]
      OBVIOUS
    <3>2. schedulers' = [schedulers EXCEPT ![counter] = {t}]
      BY <1>1, <2>1 DEF UseSchedulingAlgorithm, WS!Construct
    <3>3. counter' \in Nat /\ id' \in [Threads -> Nat]
      <4>1. counter' = counter + 1 /\ id' = [id EXCEPT ![t] = counter]
        BY <1>1, <2>1 DEF UseSchedulingAlgorithm, WS!Construct
      <4> QED BY <4>1
    <3>4. UNCHANGED <<active, handover, dpc, remote, shared, local, flag,
                     poolVars>>
      BY <1>1, <2>1 DEF UseSchedulingAlgorithm
    <3> QED BY <3>1, <3>2, <3>3, <3>4
  <2>2. CASE sched # "work_stealing"
    BY <1>1, <2>2 DEF UseSchedulingAlgorithm
  <2> QED BY <2>1, <2>2
<1>2. CASE ConstructorBarrier(t)
  BY <1>2 DEF ConstructorBarrier
<1>3. CASE StartingBlock(t)
  BY <1>3 DEF StartingBlock
<1>4. CASE FinishLine(t)
  <2>1. CASE \A u \in Threads \ {t} : mainpc[u] = "finishwait"
    BY <1>4, <2>1, WakeType DEF FinishLine
  <2>2. CASE ~ \A u \in Threads \ {t} : mainpc[u] = "finishwait"
    BY <1>4, <2>2, SwitchType DEF FinishLine, NoWake, QueuesTyped
  <2> QED BY <2>1, <2>2
<1>5. CASE RunReturns(t)
  BY <1>5, SwitchType DEF RunReturns, QueuesTyped
<1>6. CASE \E f \in Fibers : PopWork(f)
  BY <1>a, <1>6 DEF PopWork
<1>7. CASE PopEmpty
  BY <1>a, <1>7, SwitchType DEF PopEmpty, QueuesTyped
<1>8. CASE GetFuture
  <2>1. CASE UNCHANGED <<active, handover, queueVars>>
    BY <1>8, <2>1 DEF GetFuture
  <2>2. CASE Switch(0, NoCtx)
    BY <1>a, <1>8, <2>2, SwitchType DEF GetFuture, QueuesTyped
  <2> QED BY <1>8, <2>1, <2>2 DEF GetFuture
<1>9. CASE GetDone
  BY <1>9 DEF GetDone
<1> QED
  BY <1>1, <1>2, <1>3, <1>4, <1>5, <1>6, <1>7, <1>8, <1>9 DEF MainStep

(* ... and those of the client.                                            *)
LEMMA ClientType ==
  ASSUME RuntimeTypeOK, ClientStep \/ ClientCall
  PROVE  RuntimeTypeOK'
<1> USE DEF RuntimeTypeOK, poolVars, setupVars, wakeVars, stealVars,
            queueVars, threadVars
<1>1. CASE ClientStep
  BY <1>1 DEF ClientStep, Spawn, ConstructorArrives, ConstructorReturns,
              JoinGet, JoinReturns
<1>2. CASE ClientCall
  <2>1. UNCHANGED <<threadVars, queueVars, setupVars>>
    BY <1>2 DEF ClientCall, Submit, Close, Join, Destroy
  <2>2. \/ UNCHANGED <<remote, flag>>
        \/ WakeRemote({0})
    BY <1>2 DEF ClientCall, Submit, Close, Join, Destroy, EnterJoin,
                WakeConsumer
  <2> QED BY <2>1, <2>2, WakeType
<1> QED BY <1>1, <1>2

(* Every step keeps the types of the pool and of its client.               *)
LEMMA PoolTypeStep ==
  ASSUME PoolTypeOK, [Next]_vars
  PROVE  PoolTypeOK'
<1> USE PoolAssumption, ThreadZero
    DEF PoolTypeOK, clientVars, workVars, runVars
<1>1. CASE ClientStep
  <2>1. CASE \E t \in Threads : Spawn(t)
    BY <2>1 DEF Spawn
  <2>2. CASE ConstructorArrives \/ ConstructorReturns \/ JoinReturns
    BY <2>2 DEF ConstructorArrives, ConstructorReturns, JoinReturns
  <2>3. CASE JoinGet
    <3>1. jidx' \in 0 .. ThreadNumber /\ got' \subseteq Threads
      <4>1. jidx \in Threads
        BY <2>3 DEF JoinGet, Threads
      <4>2. jidx' = jidx \/ jidx' = jidx + 1
        BY <2>3 DEF JoinGet
      <4>3. got' = got \/ got' = got \cup {jidx}
        BY <2>3 DEF JoinGet
      <4>4. jidx' \in 0 .. ThreadNumber
        BY <4>1, <4>2 DEF Threads
      <4>5. got' \subseteq Threads
        BY <4>1, <4>3
      <4> QED BY <4>4, <4>5
    <3>2. cpc' \in {"join", "dtor", "idle", "terminated"}
      BY <2>3 DEF JoinGet, JoinThrows
    <3> QED BY <2>3, <3>1, <3>2 DEF JoinGet
  <2> QED BY <1>1, <2>1, <2>2, <2>3 DEF ClientStep
<1>2. CASE ClientCall
  <2>1. CASE \E f \in Fibers : Submit(f)
    BY <2>1 DEF Submit, WakeConsumer
  <2>2. CASE Close
    BY <2>2 DEF Close, WakeConsumer
  <2>3. CASE Join
    BY <2>3 DEF Join, EnterJoin, WakeConsumer
  <2>4. CASE Destroy
    <3>1. CASE joinable
      <4>1. mainpc' = mainpc \/ mainpc' = [mainpc EXCEPT ![0] = "pop"]
        BY <2>4, <3>1 DEF Destroy, EnterJoin, WakeConsumer
      <4>2. cpc' = "dtor" /\ jidx' = 0 /\ closed' = TRUE
        BY <2>4, <3>1 DEF Destroy, EnterJoin
      <4>3. UNCHANGED <<joinable, got, work, left, futures, threw>>
        BY <2>4, <3>1 DEF Destroy, EnterJoin
      <4>4. mainpc' \in [Threads -> {"unborn", "new", "constructed", "start",
                                     "pop", "popwait", "get", "getwait",
                                     "finish", "finishwait", "released",
                                     "exiting", "exited"}]
        BY <4>1
      <4>5. jidx' \in 0 .. ThreadNumber
        BY <4>2
      <4> QED BY <4>2, <4>3, <4>4, <4>5
    <3>2. CASE ~joinable
      BY <2>4, <3>2 DEF Destroy
    <3> QED BY <3>1, <3>2
  <2> QED BY <1>2, <2>1, <2>2, <2>3, <2>4 DEF ClientCall
<1>3. ASSUME NEW t \in Threads, MainStep(t)
      PROVE  PoolTypeOK'
  <2>1. CASE \E f \in Fibers : PopWork(f)
    <3>1. \A f \in Fibers : Append(futures, f) \in Seq(Fibers)
      BY AppendProperties
    <3> QED BY <2>1, <3>1 DEF PopWork
  <2>2. CASE GetFuture
    <3>1. Tail(futures) \in Seq(Fibers)
      BY <2>2, HeadTailProperties DEF GetFuture
    <3> QED BY <2>2, <3>1 DEF GetFuture
  <2>3. CASE FinishLine(t)
    BY <2>3 DEF FinishLine
  <2>4. CASE \/ UseSchedulingAlgorithm(t) \/ ConstructorBarrier(t)
             \/ StartingBlock(t)
             \/ RunReturns(t) \/ PopEmpty \/ GetDone
    BY <2>4 DEF UseSchedulingAlgorithm, ConstructorBarrier, StartingBlock,
                RunReturns, PopEmpty, GetDone
  <2> QED BY <1>3, <2>1, <2>2, <2>3, <2>4 DEF MainStep
<1>4. ASSUME NEW t \in Threads, RuntimeStep(t)
      PROVE  PoolTypeOK'
  BY <1>4 DEF RuntimeStep, Handover, DispatchTop, DispatchPick,
              DispatchSuspend, DispatchExit
<1>5. ASSUME NEW t \in Threads, FiberStep(t)
      PROVE  PoolTypeOK'
  <2> PICK f \in Fibers :
         FiberYield(t, f) \/ FiberDone(t, f) \/ FiberTerminate(t, f)
    BY <1>5 DEF FiberStep
  <2>1. CASE FiberYield(t, f)
    <3>1. left' \in [Fibers -> 0 .. Iterations]
      BY <2>1 DEF FiberYield
    <3> QED BY <2>1, <3>1 DEF FiberYield
  <2>2. CASE FiberDone(t, f)
    BY <2>2 DEF FiberDone
  <2>3. CASE FiberTerminate(t, f)
    BY <2>3 DEF FiberTerminate
  <2> QED BY <2>1, <2>2, <2>3
<1>6. CASE UNCHANGED vars
  BY <1>6 DEF vars
<1> QED
  BY <1>1, <1>2, <1>3, <1>4, <1>5, <1>6 DEF Next, ThreadStep, Ended

(* Type correctness: every variable keeps its type, for any number of      *)
(* threads and works and each scheduler; in particular the queues of the   *)
(* schedulers hold nothing but contexts of the pool.                       *)
THEOREM TypeCorrect == Spec => []TypeOK
<1>1. Init => TypeOK
  <2> SUFFICES ASSUME Init
               PROVE  PoolTypeOK /\ RuntimeTypeOK
    BY DEF TypeOK
  <2>1. PoolTypeOK
    <3>1. left \in [Fibers -> 0 .. Iterations]
      BY PoolAssumption DEF Init
    <3>2. jidx \in 0 .. ThreadNumber /\ futures \in Seq(Fibers)
      BY PoolAssumption DEF Init
    <3> QED BY <3>1, <3>2 DEF Init, PoolTypeOK
  <2>2. \A t \in Threads : <<Disp(t)>> \in Seq(Ctx)
    BY DEF Ctx, Pinned
  <2>3. RuntimeTypeOK
    BY <2>2, PoolAssumption DEF Init, SW!CreatePoolCtx, WS!CreatePoolCtx,
                               RuntimeTypeOK, Ctx, Pinned
  <2> QED BY <2>1, <2>3
<1>2. TypeOK /\ [Next]_vars => TypeOK'
  <2> SUFFICES ASSUME TypeOK, [Next]_vars
               PROVE  RuntimeTypeOK'
    BY PoolTypeStep DEF TypeOK
  <2>1. CASE UNCHANGED vars
    BY <2>1 DEF TypeOK, RuntimeTypeOK, vars, poolVars, threadVars, queueVars,
                wakeVars, stealVars
  <2> QED
    BY <2>1, RuntimeStepType, FiberStepType, MainStepType, ClientType
       DEF TypeOK, Next, ThreadStep, Ended
<1> QED BY <1>1, <1>2, PTL DEF Spec

-----------------------------------------------------------------------------
(* No thread ends and join() does not succeed before the works are done.   *)

(* A pushed future is collected after all the earlier ones.                *)
LEMMA CoverAppend ==
  ASSUME PoolTypeOK, NEW f \in Fibers, NEW g \in Fibers,
         g = f \/ \E k \in DOMAIN futures : futures[k] = g
  PROVE  \E k \in DOMAIN Append(futures, f) : Append(futures, f)[k] = g
<1> DEFINE s == Append(futures, f)
<1>1. futures \in Seq(Fibers)
  BY DEF PoolTypeOK
<1>2. /\ s \in Seq(Fibers) /\ Len(s) = Len(futures) + 1
      /\ \A i \in 1 .. Len(futures) : s[i] = futures[i]
      /\ s[Len(futures) + 1] = f
  BY <1>1, AppendProperties
<1>3. /\ Len(futures) \in Nat /\ DOMAIN futures = 1 .. Len(futures)
      /\ DOMAIN s = 1 .. Len(s)
  BY <1>1, <1>2, LenProperties
<1> HIDE DEF s
<1>4. \E k \in DOMAIN s : s[k] = g
  BY <1>2, <1>3
<1> QED BY <1>4 DEF s

(* Collecting the first future keeps the others.                           *)
LEMMA CoverTail ==
  ASSUME PoolTypeOK, futures # << >>, NEW g \in Fibers, g # Head(futures),
         \E k \in DOMAIN futures : futures[k] = g
  PROVE  \E k \in DOMAIN Tail(futures) : Tail(futures)[k] = g
<1>1. futures \in Seq(Fibers)
  BY DEF PoolTypeOK
<1>2. /\ Tail(futures) \in Seq(Fibers) /\ Len(Tail(futures)) = Len(futures) - 1
      /\ \A i \in 1 .. Len(Tail(futures)) : Tail(futures)[i] = futures[i + 1]
  BY <1>1, HeadTailProperties
<1>3. /\ Len(futures) \in Nat /\ DOMAIN futures = 1 .. Len(futures)
      /\ DOMAIN Tail(futures) = 1 .. Len(Tail(futures))
  BY <1>1, <1>2, LenProperties
<1>4. PICK k \in DOMAIN futures : futures[k] = g
  OBVIOUS
<1>5. k # 1
  BY <1>1, <1>4
<1>6. k - 1 \in DOMAIN Tail(futures) /\ Tail(futures)[k - 1] = g
  BY <1>2, <1>3, <1>4, <1>5
<1> QED BY <1>6

(* The steps of the client keep the invariant of the pool.                 *)
LEMMA ClientStepInv ==
  ASSUME PoolTypeOK, PoolInv, ClientStep
  PROVE  PoolInv'
<1> USE PoolAssumption, ThreadZero
    DEF PoolTypeOK, PoolInv, FuturesCoverFibers, OneOffer, CollectsAll,
        PassTogether, JoinedInOrder, PastFinishLine, RunReturned, workVars,
        runVars
<1>1. CASE \E t \in Threads : Spawn(t)
  BY <1>1 DEF Spawn, clientVars
<1>2. CASE ConstructorArrives
  BY <1>2 DEF ConstructorArrives
<1>3. CASE ConstructorReturns
  BY <1>3 DEF ConstructorReturns
<1>4. CASE JoinGet
  BY <1>4 DEF JoinGet, JoinThrows, Threads
<1>5. CASE JoinReturns
  BY <1>5 DEF JoinReturns, Threads
<1> QED BY <1>1, <1>2, <1>3, <1>4, <1>5 DEF ClientStep

(* So do its calls.                                                        *)
LEMMA ClientCallInv ==
  ASSUME PoolTypeOK, PoolInv, ClientCall
  PROVE  PoolInv'
<1> USE PoolAssumption, ThreadZero
    DEF PoolTypeOK, PoolInv, FuturesCoverFibers, OneOffer, CollectsAll,
        PassTogether, JoinedInOrder, PastFinishLine, RunReturned
<1>1. ASSUME NEW f \in Fibers, Submit(f)
      PROVE  PoolInv'
  <2>1. CASE closed
    BY <1>1, <2>1 DEF Submit
  <2>2. CASE ~closed
    <3>1. \/ mainpc' = mainpc
          \/ mainpc[0] = "popwait" /\ mainpc' = [mainpc EXCEPT ![0] = "pop"]
      BY <1>1, <2>2 DEF Submit, WakeConsumer
    <3>2. /\ cpc' = "push" /\ work[f] = "new"
          /\ work' = [work EXCEPT ![f] = "offered"]
      BY <1>1, <2>2 DEF Submit
    <3>3. UNCHANGED <<joinable, closed, left, futures, threw>> /\ cpc = "idle"
      BY <1>1 DEF Submit
    <3>4. OneOffer'
      BY <2>2, <3>2, <3>3
    <3>5. CollectsAll' /\ PassTogether'
      BY <3>1, <3>3
    <3> QED BY <3>1, <3>2, <3>3, <3>4, <3>5
  <2> QED BY <2>1, <2>2
<1>2. CASE Close
  BY <1>2 DEF Close, WakeConsumer, clientVars
<1>3. CASE Join
  BY <1>3 DEF Join, EnterJoin, WakeConsumer, Threads
<1>4. CASE Destroy
  BY <1>4 DEF Destroy, EnterJoin, WakeConsumer, Threads
<1> QED BY <1>1, <1>2, <1>3, <1>4 DEF ClientCall

(* So do the steps of run(i)...                                            *)
LEMMA MainStepInv ==
  ASSUME PoolTypeOK, PoolInv, NEW t \in Threads, MainStep(t)
  PROVE  PoolInv'
<1> USE PoolAssumption, ThreadZero
    DEF PoolTypeOK, PoolInv, OneOffer, CollectsAll, PassTogether,
        JoinedInOrder, PastFinishLine, RunReturned
<1>1. CASE \/ UseSchedulingAlgorithm(t) \/ ConstructorBarrier(t)
           \/ StartingBlock(t)
  BY <1>1 DEF UseSchedulingAlgorithm, ConstructorBarrier, StartingBlock,
              FuturesCoverFibers, clientVars, workVars
<1>2. CASE FinishLine(t)
  <2>1. /\ UNCHANGED <<futures, threw, clientVars, workVars>>
        /\ mainpc[t] = "finish"
    BY <1>2 DEF FinishLine
  <2>2. CASE /\ \A u \in Threads \ {t} : mainpc[u] = "finishwait"
             /\ mainpc' = [u \in Threads |-> "released"]
    BY <2>1, <2>2 DEF FuturesCoverFibers, clientVars, workVars
  <2>3. CASE mainpc' = [mainpc EXCEPT ![t] = "finishwait"]
    BY <2>1, <2>3 DEF FuturesCoverFibers, clientVars, workVars
  <2> QED BY <1>2, <2>2, <2>3 DEF FinishLine
<1>3. CASE RunReturns(t)
  BY <1>3 DEF RunReturns, FuturesCoverFibers, clientVars, workVars
<1>4. CASE \E f \in Fibers : PopWork(f)
  <2> PICK f \in Fibers : PopWork(f)
    BY <1>4
  <2>1. FuturesCoverFibers'
    <3>1. SUFFICES ASSUME ~threw', NEW g \in Fibers, work'[g] = "launched"
                   PROVE  \E k \in DOMAIN futures' : futures'[k] = g
      BY DEF FuturesCoverFibers
    <3>2. futures' = Append(futures, f) /\ threw' = threw
      BY DEF PopWork
    <3>3. g = f \/ work[g] = "launched"
      BY <3>1 DEF PopWork
    <3>4. g = f \/ \E k \in DOMAIN futures : futures[k] = g
      BY <3>1, <3>2, <3>3 DEF FuturesCoverFibers
    <3>5. \E k \in DOMAIN Append(futures, f) : Append(futures, f)[k] = g
      BY <3>4, CoverAppend
    <3> QED BY <3>2, <3>5
  <2>2. OneOffer'
    <3>1. work[f] = "offered" /\ work' = [work EXCEPT ![f] = "launched"]
      BY DEF PopWork
    <3>2. \A g \in Fibers : work'[g] # "offered"
      BY <3>1
    <3> QED BY <3>2
  <2> QED BY <2>1, <2>2 DEF PopWork
<1>5. CASE PopEmpty
  BY <1>5 DEF PopEmpty, FuturesCoverFibers, clientVars, workVars
<1>6. CASE GetFuture
  <2>1. FuturesCoverFibers'
    <3>1. CASE work[Head(futures)] = "value" /\ futures' = Tail(futures)
      <4> SUFFICES ASSUME ~threw', NEW g \in Fibers, work'[g] = "launched"
                   PROVE  \E k \in DOMAIN futures' : futures'[k] = g
        BY DEF FuturesCoverFibers
      <4>1. futures # << >> /\ work' = work /\ threw' = threw
        BY <1>6, <3>1 DEF GetFuture, workVars
      <4>2. g # Head(futures) /\ \E k \in DOMAIN futures : futures[k] = g
        BY <3>1, <4>1 DEF FuturesCoverFibers
      <4>3. \E k \in DOMAIN Tail(futures) : Tail(futures)[k] = g
        BY <4>1, <4>2, CoverTail
      <4> QED BY <3>1, <4>3
    <3>2. CASE threw' = TRUE
      BY <3>2 DEF FuturesCoverFibers
    <3>3. CASE UNCHANGED <<futures, threw>>
      BY <1>6, <3>3 DEF GetFuture, FuturesCoverFibers, workVars
    <3> QED BY <1>6, <3>1, <3>2, <3>3 DEF GetFuture
  <2> QED BY <1>6, <2>1 DEF GetFuture, clientVars, workVars
<1>7. CASE GetDone
  BY <1>7 DEF GetDone, FuturesCoverFibers, clientVars, workVars
<1> QED BY <1>1, <1>2, <1>3, <1>4, <1>5, <1>6, <1>7 DEF MainStep

(* ... of the runtime, which touch run(i) only when its thread ends...     *)
LEMMA RuntimeStepInv ==
  ASSUME PoolTypeOK, PoolInv, NEW t \in Threads, RuntimeStep(t)
  PROVE  PoolInv'
<1> USE PoolAssumption, ThreadZero
    DEF PoolTypeOK, PoolInv, FuturesCoverFibers, OneOffer, CollectsAll,
        PassTogether, JoinedInOrder, PastFinishLine, RunReturned, clientVars,
        workVars
<1>1. CASE DispatchExit(t)
  BY <1>1 DEF DispatchExit
<1>2. CASE UNCHANGED <<clientVars, workVars, runVars>>
  BY <1>2 DEF runVars
<1> QED
  BY <1>1, <1>2 DEF RuntimeStep, Handover, DispatchTop, DispatchPick,
                    DispatchSuspend

(* ... and of the fibers.                                                  *)
LEMMA FiberStepInv ==
  ASSUME PoolTypeOK, PoolInv, NEW t \in Threads, FiberStep(t)
  PROVE  PoolInv'
<1> USE PoolAssumption, ThreadZero
    DEF PoolTypeOK, PoolInv, FuturesCoverFibers, OneOffer, CollectsAll,
        PassTogether, JoinedInOrder, PastFinishLine, RunReturned, clientVars
<1> PICK f \in Fibers :
       FiberYield(t, f) \/ FiberDone(t, f) \/ FiberTerminate(t, f)
  BY DEF FiberStep
<1>1. CASE FiberYield(t, f)
  BY <1>1 DEF FiberYield, runVars
<1>2. CASE FiberDone(t, f)
  <2>1. FuturesCoverFibers' /\ OneOffer'
    BY <1>2 DEF FiberDone
  <2>2. CASE mainpc' = mainpc
    BY <1>2, <2>1, <2>2 DEF FiberDone
  <2>3. CASE mainpc[0] = "getwait" /\ mainpc' = [mainpc EXCEPT ![0] = "get"]
    BY <1>2, <2>1, <2>3 DEF FiberDone
  <2> QED BY <1>2, <2>2, <2>3 DEF FiberDone
<1>3. CASE FiberTerminate(t, f)
  BY <1>3 DEF FiberTerminate, runVars, workVars
<1> QED BY <1>1, <1>2, <1>3

(* The invariant behind the results below holds in every reachable state.  *)
THEOREM PoolInvariant == Spec => [](PoolTypeOK /\ PoolInv)
<1>1. Init => PoolTypeOK /\ PoolInv
  <2> SUFFICES ASSUME Init
               PROVE  PoolTypeOK /\ PoolInv
    OBVIOUS
  <2>1. PoolTypeOK
    <3>1. left \in [Fibers -> 0 .. Iterations]
      BY PoolAssumption DEF Init
    <3>2. jidx \in 0 .. ThreadNumber /\ futures \in Seq(Fibers)
      BY PoolAssumption DEF Init
    <3> QED BY <3>1, <3>2 DEF Init, PoolTypeOK
  <2>2. PoolInv
    BY ThreadZero DEF Init, PoolInv, FuturesCoverFibers, OneOffer, CollectsAll,
       PassTogether, JoinedInOrder, PastFinishLine, RunReturned
  <2> QED BY <2>1, <2>2
<1>2. PoolTypeOK /\ PoolInv /\ [Next]_vars => (PoolTypeOK /\ PoolInv)'
  <2> SUFFICES ASSUME PoolTypeOK, PoolInv, [Next]_vars
               PROVE  PoolInv'
    BY PoolTypeStep
  <2>1. CASE UNCHANGED vars
    BY <2>1 DEF vars, clientVars, workVars, runVars, PoolInv,
       FuturesCoverFibers, OneOffer, CollectsAll, PassTogether, JoinedInOrder,
       PastFinishLine, RunReturned
  <2> QED
    BY <2>1, ClientStepInv, ClientCallInv, MainStepInv, RuntimeStepInv,
       FiberStepInv DEF Next, ThreadStep, Ended
<1> QED BY <1>1, <1>2, PTL DEF Spec

(* When thread 0 is past the finish line no accepted work is unfinished,   *)
(* unless an exception took it there.                                      *)
LEMMA PastMeansDone ==
  ASSUME PoolTypeOK, PoolInv, ~threw, PastFinishLine(0)
  PROVE  Unfinished = {}
BY DEF PoolTypeOK, PoolInv, FuturesCoverFibers, OneOffer, CollectsAll,
       PastFinishLine, Unfinished

(* finish_line.wait() does its duty: no thread passes it, hence ends, while*)
(* an accepted work is unfinished, unless an exception has left run(0).    *)
THEOREM FinishLineCorrect == Spec => []FinishAfterWork
<1>1. PoolTypeOK /\ PoolInv => FinishAfterWork
  BY PastMeansDone DEF FinishAfterWork, PoolInv, PassTogether
<1> QED BY <1>1, PoolInvariant, PTL

(* join() does its duty: once the pool is not joinable any more, every     *)
(* thread function has returned and every accepted work has done all its   *)
(* iterations; this holds also when works throw.                           *)
THEOREM JoinCorrect == Spec => []JoinAfterWork
<1>1. PoolTypeOK /\ PoolInv => JoinAfterWork
  <2> SUFFICES ASSUME PoolTypeOK, PoolInv, ~joinable
               PROVE  /\ Unfinished = {}
                      /\ \A t \in Threads : RunReturned(t)
                      /\ \A f \in Started : left[f] = 0
    BY DEF JoinAfterWork
  <2>1. ~threw /\ \A t \in Threads : RunReturned(t)
    BY DEF PoolInv, JoinedInOrder
  <2>2. Unfinished = {}
    BY <2>1, ThreadZero, PastMeansDone DEF RunReturned, PastFinishLine
  <2>3. \A f \in Started : left[f] = 0
    BY <2>2 DEF PoolInv, Started, Unfinished
  <2> QED BY <2>1, <2>2, <2>3
<1> QED BY <1>1, PoolInvariant, PTL

-----------------------------------------------------------------------------
(* Every step of the pool is a step of the abstract pool, or invisible.    *)

(* A pool whose client joins, or has joined, is closed.                    *)
LEMMA JoinedIsClosed ==
  ASSUME PoolTypeOK, PoolInv, ~joinable
  PROVE  closed
BY ThreadZero DEF PoolInv, JoinedInOrder, CollectsAll, RunReturned

(* What a change of the works looks like from outside.                     *)
LEMMA WorkStateChange ==
  ASSUME PoolTypeOK, NEW f \in Fibers, NEW v, work' = [work EXCEPT ![f] = v]
  PROVE  WorkState' = [WorkState EXCEPT ![f] = Seen(v)]
BY DEF PoolTypeOK, WorkState

LEMMA WorkStateSame ==
  ASSUME work' = work
  PROVE  WorkState' = WorkState
BY DEF WorkState

(* The calls of the client are those of a client of the abstract pool.     *)
LEMMA ClientCallRefines ==
  ASSUME PoolTypeOK, PoolInv, ClientCall
  PROVE  WP!Next \/ UNCHANGED WP!vars
<1> USE DEF WP!vars, WP!Next
<1>1. ASSUME NEW f \in Fibers, Submit(f)
      PROVE  WP!Accept(f) \/ WP!Reject(f)
  <2>1. WorkState[f] = "new" /\ PoolState' = PoolState
    BY <1>1 DEF Submit, WorkState, Seen, PoolState
  <2>2. CASE closed
    <3>1. WorkState' = [WorkState EXCEPT ![f] = "rejected"]
      BY <1>1, <2>2, WorkStateChange DEF Submit, Seen
    <3> QED BY <2>1, <2>2, <3>1 DEF WP!Reject, PoolState
  <2>3. CASE ~closed
    <3>1. WorkState' = [WorkState EXCEPT ![f] = "accepted"]
      BY <1>1, <2>3, WorkStateChange DEF Submit, Seen
    <3>2. PoolState = "open"
      BY <2>3, JoinedIsClosed DEF PoolState
    <3> QED BY <2>1, <3>1, <3>2 DEF WP!Accept
  <2> QED BY <2>2, <2>3
<1>2. CASE WorkState' = WorkState /\ UNCHANGED <<joinable, closed>>
  BY <1>2 DEF PoolState
<1>3. CASE WorkState' = WorkState /\ ~closed /\ closed' /\ joinable' = joinable
  <2>1. joinable /\ PoolState = "open" /\ PoolState' = "closed"
    BY <1>3, JoinedIsClosed DEF PoolState
  <2> QED BY <1>3, <2>1 DEF WP!Close
<1>4. CASE Close \/ Join \/ Destroy
  <2>1. WorkState' = WorkState
    BY <1>4, WorkStateSame DEF Close, Join, Destroy
  <2>2. joinable' = joinable /\ (closed' = closed \/ closed' = TRUE)
    BY <1>4 DEF Close, Join, Destroy, EnterJoin, clientVars
  <2> QED BY <1>2, <1>3, <2>1, <2>2 DEF PoolTypeOK
<1> QED BY <1>1, <1>4 DEF ClientCall

(* Inside a call only the return of join() can be seen.                    *)
LEMMA ClientStepRefines ==
  ASSUME PoolTypeOK, PoolInv, ClientStep
  PROVE  WP!Next \/ UNCHANGED WP!vars
<1>1. CASE JoinReturns
  <2>1. joinable /\ closed /\ jidx = ThreadNumber
    BY <1>1 DEF JoinReturns, PoolInv, JoinedInOrder
  <2>2. RunReturned(0) /\ ~threw
    BY <1>1, <2>1, ThreadZero, PoolAssumption
       DEF JoinReturns, PoolInv, JoinedInOrder, Threads
  <2>3. Unfinished = {}
    BY <2>2, PastMeansDone DEF RunReturned, PastFinishLine
  <2>4. \A f \in Fibers : WorkState[f] # "accepted"
    BY <2>3 DEF WorkState, Seen, Unfinished, PoolTypeOK
  <2>5. PoolState = "closed" /\ PoolState' = "joined" /\ WorkState' = WorkState
    BY <1>1, <2>1, WorkStateSame DEF JoinReturns, PoolState, workVars
  <2> QED BY <2>4, <2>5 DEF WP!Next, WP!Join
<1>2. CASE ~JoinReturns
  <2>1. work' = work /\ closed' = closed /\ joinable' = joinable
    BY <1>2 DEF ClientStep, Spawn, ConstructorArrives, ConstructorReturns,
                JoinGet, clientVars, workVars
  <2> QED BY <2>1, WorkStateSame DEF WP!vars, PoolState
<1> QED BY <1>1, <1>2

(* Of the steps of the threads only the end of a work can be seen.         *)
LEMMA ThreadStepRefines ==
  ASSUME PoolTypeOK, PoolInv, NEW t \in Threads, ThreadStep(t)
  PROVE  WP!Next \/ UNCHANGED WP!vars
<1>1. ASSUME NEW f \in Fibers, FiberDone(t, f)
      PROVE  WP!Complete(f)
  <2>1. WorkState[f] = "accepted" /\ PoolState' = PoolState
    BY <1>1 DEF FiberDone, WorkState, Seen, PoolState, clientVars
  <2>2. WorkState' = [WorkState EXCEPT ![f] = "done"]
    BY <1>1, WorkStateChange DEF FiberDone, Seen
  <2> QED BY <2>1, <2>2 DEF WP!Complete
<1>2. ASSUME NEW f \in Fibers, PopWork(f)
      PROVE  UNCHANGED WP!vars
  <2>1. WorkState[f] = "accepted"
    BY <1>2 DEF PopWork, WorkState, Seen
  <2>2. WorkState' = [WorkState EXCEPT ![f] = "accepted"]
    BY <1>2, WorkStateChange DEF PopWork, Seen
  <2>3. WorkState' = WorkState
    BY <2>1, <2>2 DEF WorkState
  <2> QED BY <1>2, <2>3 DEF PopWork, PoolState, WP!vars
<1>3. CASE work' = work /\ joinable' = joinable /\ closed' = closed
  BY <1>3, WorkStateSame DEF PoolState, WP!vars
<1>4. CASE MainStep(t)
  BY <1>2, <1>3, <1>4 DEF MainStep, UseSchedulingAlgorithm, ConstructorBarrier,
     StartingBlock, FinishLine, RunReturns, PopEmpty, GetFuture, GetDone,
     clientVars, workVars
<1>5. CASE RuntimeStep(t)
  BY <1>3, <1>5 DEF RuntimeStep, Handover, DispatchTop, DispatchPick,
     DispatchSuspend, DispatchExit, clientVars, workVars
<1>6. CASE FiberStep(t)
  BY <1>1, <1>3, <1>6 DEF FiberStep, FiberYield, FiberTerminate, clientVars,
     workVars, WP!Next
<1> QED BY <1>4, <1>5, <1>6 DEF ThreadStep

(* The pool implements the safety part of the abstract pool of works, with *)
(* every scheduler, also when works throw.                                 *)
THEOREM PoolRefinesWorkPool == Spec => SafePool
<1>1. Init => WP!Init
  BY DEF Init, WP!Init, PoolState, WorkState, Seen
<1>2. PoolTypeOK /\ PoolInv /\ [Next]_vars => [WP!Next]_(WP!vars)
  <2> SUFFICES ASSUME PoolTypeOK, PoolInv, [Next]_vars
               PROVE  WP!Next \/ UNCHANGED WP!vars
    OBVIOUS
  <2>1. CASE UNCHANGED vars
    BY <2>1, WorkStateSame DEF vars, clientVars, workVars, WP!vars, PoolState
  <2> QED
    BY <2>1, ClientStepRefines, ClientCallRefines, ThreadStepRefines
       DEF Next, Ended
<1> QED BY <1>1, <1>2, PoolInvariant, PTL DEF Spec, SafePool, WP!Spec

-----------------------------------------------------------------------------
(* The start-up of the work-stealing schedulers. *)

(* The states of run() before the scheduler of the thread is installed.    *)
Early == {"unborn", "new", "constructed"}

(* The threads whose scheduler has taken an identifier.                    *)
Built == {t \in Threads : mainpc[t] \notin {"unborn", "new"}}

(* The counter has numbered the schedulers built so far, each of them is   *)
(* published under its number, and no number below the counter is free; a  *)
(* thread that is past the barrier has seen all of them built.             *)
BuildInv ==
  sched = "work_stealing" =>
    /\ counter = Cardinality(Built)
    /\ \A t \in Built : id[t] < counter /\ schedulers[id[t]] = {t}
    /\ \A k \in Threads : k < counter => \E u \in Threads : schedulers[k] = {u}
    /\ \A t \in Threads : mainpc[t] \notin Early => Built = Threads

LEMMA ThreadCount == IsFiniteSet(Threads) /\ Cardinality(Threads) = ThreadNumber
<1>1. ThreadNumber - 1 \in Int /\ 0 \in Int /\ ~(0 > ThreadNumber - 1)
  BY PoolAssumption
<1>2. /\ IsFiniteSet(0 .. ThreadNumber - 1)
      /\ Cardinality(0 .. ThreadNumber - 1)
           = IF 0 > ThreadNumber - 1 THEN 0 ELSE (ThreadNumber - 1) - 0 + 1
  BY <1>1, FS_Interval
<1> QED BY <1>1, <1>2, PoolAssumption DEF Threads

(* When every scheduler is built the invariant is what was promised.       *)
LEMMA BuildInvImplies ==
  ASSUME TypeOK, BuildInv
  PROVE  SchedulersPublished
<1> SUFFICES ASSUME sched = "work_stealing"
             PROVE  SchedulersPublished
  BY DEF SchedulersPublished
<1>1. ASSUME NEW t \in Threads, mainpc[t] \notin Early
      PROVE  \A k \in Threads : \E u \in Threads : schedulers[k] = {u}
  <2>1. counter = ThreadNumber
    BY <1>1, ThreadCount DEF BuildInv
  <2>2. \A k \in Threads : k < counter
    BY <2>1, PoolAssumption DEF Threads
  <2> QED BY <2>2 DEF BuildInv
<1>2. ASSUME NEW t \in Threads, NEW u \in Threads,
             {mainpc[t], mainpc[u]} \cap {"unborn", "new"} = {}, t # u
      PROVE  id[t] # id[u] /\ schedulers[id[t]] = {t}
  <2>1. t \in Built /\ u \in Built
    BY <1>2 DEF Built
  <2>2. schedulers[id[t]] = {t} /\ schedulers[id[u]] = {u}
    BY <2>1 DEF BuildInv
  <2> QED BY <1>2, <2>2
<1> QED BY <1>1, <1>2 DEF SchedulersPublished, Early

(* A thread takes the next number: it exists, since this thread has none.  *)
LEMMA BuildStep ==
  ASSUME TypeOK, BuildInv, NEW t \in Threads, UseSchedulingAlgorithm(t)
  PROVE  BuildInv'
<1> SUFFICES ASSUME sched = "work_stealing"
             PROVE  BuildInv'
  BY DEF BuildInv, UseSchedulingAlgorithm, poolVars
<1>1. /\ sched' = sched /\ counter' = counter + 1
      /\ id' = [id EXCEPT ![t] = counter]
      /\ schedulers' = [schedulers EXCEPT ![counter] = {t}]
      /\ mainpc' = [mainpc EXCEPT ![t] = "constructed"]
  BY DEF UseSchedulingAlgorithm, WS!Construct, poolVars
<1>2. mainpc[t] = "new" /\ t \notin Built
  BY DEF UseSchedulingAlgorithm, Built
<1>3. Built \in SUBSET Threads /\ Built' = Built \cup {t}
  BY <1>1, <1>2 DEF Built, TypeOK, PoolTypeOK
<1>4. IsFiniteSet(Built)
  BY <1>3, ThreadCount, FS_Subset
<1>5. Cardinality(Built') = Cardinality(Built) + 1
  BY <1>2, <1>3, <1>4, FS_AddElement
<1>6. counter = Cardinality(Built) /\ counter \in Nat
  BY DEF BuildInv, TypeOK, RuntimeTypeOK
<1>7. counter < ThreadNumber
  <2>1. Cardinality(Built) <= ThreadNumber
    BY <1>3, ThreadCount, FS_Subset
  <2>2. Cardinality(Built) # ThreadNumber
    BY <1>2, <1>3, ThreadCount, FS_Subset
  <2> QED BY <1>6, <2>1, <2>2, PoolAssumption
<1>8. counter \in Threads
  BY <1>6, <1>7, PoolAssumption DEF Threads
<1>9. schedulers'[counter] = {t} /\ id'[t] = counter
  BY <1>1, <1>8 DEF TypeOK, RuntimeTypeOK
<1>10. \A u \in Built : id'[u] < counter' /\ schedulers'[id'[u]] = {u}
  <2> SUFFICES ASSUME NEW u \in Built
               PROVE  id'[u] < counter' /\ schedulers'[id'[u]] = {u}
    OBVIOUS
  <2>1. id[u] \in Nat /\ id[u] < counter /\ schedulers[id[u]] = {u}
    BY <1>3 DEF BuildInv, TypeOK, RuntimeTypeOK
  <2>2. id'[u] = id[u] /\ id[u] # counter /\ id[u] \in Threads
    BY <1>1, <1>2, <1>3, <1>6, <1>7, <2>1, PoolAssumption
       DEF TypeOK, RuntimeTypeOK, Threads
  <2>3. schedulers'[id[u]] = schedulers[id[u]]
    BY <1>1, <2>2 DEF TypeOK, RuntimeTypeOK
  <2> QED BY <1>1, <1>6, <2>1, <2>2, <2>3
<1>11. \A k \in Threads : k < counter' => \E u \in Threads : schedulers'[k] = {u}
  <2> SUFFICES ASSUME NEW k \in Threads, k < counter + 1
               PROVE  \E u \in Threads : schedulers'[k] = {u}
    BY <1>1
  <2>1. CASE k = counter
    BY <1>9, <2>1
  <2>2. CASE k # counter
    <3>1. k < counter
      BY <1>6, <2>2, PoolAssumption DEF Threads
    <3>2. schedulers'[k] = schedulers[k]
      BY <1>1, <2>2 DEF TypeOK, RuntimeTypeOK
    <3> QED BY <3>1, <3>2 DEF BuildInv
  <2> QED BY <2>1, <2>2
<1>12. \A u \in Threads : mainpc'[u] \notin Early => Built' = Threads
  <2> SUFFICES ASSUME NEW u \in Threads, mainpc'[u] \notin Early
               PROVE  FALSE
    OBVIOUS
  <2>1. mainpc[u] \notin Early
    BY <1>1 DEF Early, TypeOK, PoolTypeOK
  <2>2. Built = Threads
    BY <2>1 DEF BuildInv
  <2> QED BY <1>2, <2>2
<1>13. counter' = Cardinality(Built')
  BY <1>1, <1>5, <1>6
<1>14. \A u \in Built' : id'[u] < counter' /\ schedulers'[id'[u]] = {u}
  <2>1. id'[t] < counter' /\ schedulers'[id'[t]] = {t}
    BY <1>1, <1>6, <1>9
  <2> QED BY <1>3, <1>10, <2>1
<1> QED BY <1>11, <1>12, <1>13, <1>14 DEF BuildInv

(* The steps that start a thread or take it past a barrier.                *)
StartStep(t) == Spawn(t) \/ ConstructorBarrier(t) \/ StartingBlock(t)

(* They build nothing, and the barrier lets nobody pass too early.         *)
LEMMA StartStepBuild ==
  ASSUME TypeOK, BuildInv, NEW t \in Threads, StartStep(t)
  PROVE  BuildInv'
<1> USE DEF StartStep, Spawn, ConstructorBarrier, StartingBlock
<1>1. UNCHANGED <<sched, counter, schedulers, id>>
  BY DEF setupVars, poolVars, stealVars
<1>2. Built' = Built
  BY DEF Built, TypeOK, PoolTypeOK
<1>3. ASSUME NEW u \in Threads, mainpc'[u] \notin Early, sched = "work_stealing"
      PROVE  Built = Threads
  <2>1. CASE mainpc[u] \notin Early
    BY <1>3, <2>1 DEF BuildInv
  <2>2. CASE mainpc[u] \in Early
    <3>1. \A v \in Threads : mainpc[v] \notin {"unborn", "new"}
      BY <1>3, <2>2 DEF Early, TypeOK, PoolTypeOK
    <3> QED BY <3>1 DEF Built
  <2> QED BY <2>1, <2>2
<1> QED BY <1>1, <1>2, <1>3 DEF BuildInv

(* No other step touches the schedulers of the pool, or takes a thread     *)
(* into or out of its start.                                               *)
BuiltStays ==
  /\ UNCHANGED <<sched, counter, schedulers, id>>
  /\ \A u \in Threads : \/ mainpc'[u] = mainpc[u]
                        \/ {mainpc[u], mainpc'[u]} \cap Early = {}

LEMMA BuiltStaysKeeps ==
  ASSUME TypeOK, BuildInv, BuiltStays
  PROVE  BuildInv'
<1>1. Built' = Built
  BY DEF Built, BuiltStays, Early
<1>2. \A u \in Threads : mainpc'[u] \notin Early => mainpc[u] \notin Early
  BY DEF BuiltStays
<1> QED BY <1>1, <1>2 DEF BuildInv, BuiltStays

LEMMA OtherMainSteps ==
  ASSUME TypeOK, NEW t \in Threads, MainStep(t),
         ~UseSchedulingAlgorithm(t), ~StartStep(t)
  PROVE  BuiltStays
<1> USE ThreadZero DEF TypeOK, PoolTypeOK, BuiltStays, Early, setupVars, poolVars,
                       stealVars
<1>1. CASE FinishLine(t)
  BY <1>1 DEF FinishLine
<1>2. CASE RunReturns(t)
  BY <1>2 DEF RunReturns
<1>3. CASE (\E f \in Fibers : PopWork(f)) \/ PopEmpty
  BY <1>3 DEF PopWork, PopEmpty
<1>4. CASE GetFuture \/ GetDone
  BY <1>4 DEF GetFuture, GetDone
<1> QED BY <1>1, <1>2, <1>3, <1>4 DEF MainStep, StartStep

LEMMA OtherThreadSteps ==
  ASSUME TypeOK, NEW t \in Threads, RuntimeStep(t) \/ FiberStep(t)
  PROVE  BuiltStays
<1> USE ThreadZero DEF TypeOK, PoolTypeOK, BuiltStays, Early, setupVars, poolVars,
                       stealVars
<1>1. CASE RuntimeStep(t)
  BY <1>1 DEF RuntimeStep, Handover, DispatchTop, DispatchPick,
              DispatchSuspend, DispatchExit, runVars
<1>2. CASE FiberStep(t)
  BY <1>2 DEF FiberStep, FiberYield, FiberDone, FiberTerminate, runVars
<1> QED BY <1>1, <1>2

LEMMA OtherClientSteps ==
  ASSUME TypeOK, ClientStep \/ ClientCall, \A t \in Threads : ~Spawn(t)
  PROVE  BuiltStays
<1> USE ThreadZero DEF TypeOK, PoolTypeOK, BuiltStays, Early, setupVars, poolVars,
                       stealVars
<1>1. CASE ClientStep
  BY <1>1 DEF ClientStep, ConstructorArrives, ConstructorReturns, JoinGet,
              JoinReturns, runVars
<1>2. CASE ClientCall
  BY <1>2 DEF ClientCall, Submit, Close, Join, Destroy, EnterJoin, WakeConsumer
<1> QED BY <1>1, <1>2

(* The work-stealing constructor with its barrier does its duty: no thread *)
(* probes the other schedulers before all of them are published, each      *)
(* under an id of its own, for any number of threads.                      *)
THEOREM SchedulersPublishedCorrect == Spec => []SchedulersPublished
<1>1. Init => BuildInv
  <2> SUFFICES ASSUME Init
               PROVE  BuildInv
    OBVIOUS
  <2>1. Built = {} /\ counter = 0
    BY DEF Init, Built, WS!CreatePoolCtx
  <2>2. \A t \in Threads : mainpc[t] \in Early
    BY DEF Init, Early
  <2>3. \A k \in Threads : ~(k < 0)
    BY PoolAssumption DEF Threads
  <2> QED BY <2>1, <2>2, <2>3, FS_EmptySet DEF BuildInv
<1>2. TypeOK /\ BuildInv /\ [Next]_vars => BuildInv'
  <2> SUFFICES ASSUME TypeOK, BuildInv, [Next]_vars
               PROVE  BuildInv'
    OBVIOUS
  <2>1. CASE UNCHANGED vars
    BY <2>1, BuiltStaysKeeps
       DEF BuiltStays, vars, poolVars, stealVars, runVars
  <2>2. ASSUME NEW t \in Threads, MainStep(t)
        PROVE  BuildInv'
    BY <2>2, BuildStep, StartStepBuild, OtherMainSteps, BuiltStaysKeeps
  <2>3. ASSUME NEW t \in Threads, RuntimeStep(t) \/ FiberStep(t)
        PROVE  BuildInv'
    BY <2>3, OtherThreadSteps, BuiltStaysKeeps
  <2>4. ASSUME NEW t \in Threads, Spawn(t)
        PROVE  BuildInv'
    BY <2>4, StartStepBuild DEF StartStep
  <2>5. CASE (ClientStep \/ ClientCall) /\ \A t \in Threads : ~Spawn(t)
    BY <2>5, OtherClientSteps, BuiltStaysKeeps
  <2> QED
    BY <2>1, <2>2, <2>3, <2>4, <2>5 DEF Next, ThreadStep, Ended
<1>3. TypeOK /\ BuildInv => SchedulersPublished
  BY BuildInvImplies
<1> QED BY <1>1, <1>2, <1>3, TypeCorrect, PTL DEF Spec

-----------------------------------------------------------------------------
(* The wake-up of a sleeping thread. *)

(* Some thread of the pool may sleep.                                      *)
Suspends == suspend \/ sched = "round_robin"

(* From the moment a main context is readied remotely, the flag stays up   *)
(* until the dispatcher of its thread is back at the head of its loop,     *)
(* where it looks at the remote queue, not only while the thread sleeps.   *)
WakeInv ==
  Suspends => \A t \in Threads : remote[t] /\ dpc[t] # "top" => flag[t]

(* notify() raises flags and lowers none.                                  *)
LEMMA NotifyRaises ==
  ASSUME RuntimeTypeOK, NEW S, Notify(S), NEW u \in Threads
  PROVE  /\ flag[u] => flag'[u]
         /\ Suspends /\ u \in S => flag'[u]
BY DEF Notify, RR!Notify, SW!Notify, WS!Notify, Suspends, RuntimeTypeOK

(* A step that only readies main contexts, or wakes nobody.                *)
WakesOrNot ==
  /\ UNCHANGED <<sched, suspend, dpc>>
  /\ UNCHANGED <<remote, flag>> \/ \E S : WakeRemote(S)

LEMMA WakesOrNotKeeps ==
  ASSUME TypeOK, WakeInv, WakesOrNot
  PROVE  WakeInv'
<1>1. CASE UNCHANGED <<remote, flag>>
  BY <1>1 DEF WakesOrNot, WakeInv, Suspends
<1>2. ASSUME NEW S, WakeRemote(S)
      PROVE  WakeInv'
  <2> SUFFICES ASSUME Suspends, NEW u \in Threads, remote'[u], dpc[u] # "top"
               PROVE  flag'[u]
    BY DEF WakesOrNot, WakeInv, Suspends
  <2>1. remote[u] \/ u \in S
    BY <1>2 DEF WakeRemote
  <2>2. /\ flag[u] => flag'[u]
        /\ u \in S => flag'[u]
    BY <1>2, NotifyRaises DEF WakeRemote, TypeOK
  <2> QED BY <2>1, <2>2 DEF WakeInv
<1> QED BY <1>1, <1>2 DEF WakesOrNot

(* The steps of the runtime: only the dispatcher lowers the flag, on its   *)
(* way to the head of the loop.                                            *)
LEMMA RuntimeStepWake ==
  ASSUME TypeOK, WakeInv, NEW t \in Threads, RuntimeStep(t)
  PROVE  WakeInv'
<1> USE DEF TypeOK, RuntimeTypeOK, WakeInv, Suspends, setupVars, poolVars
<1>1. CASE Handover(t)
  BY <1>1 DEF Handover, wakeVars
<1>2. CASE DispatchTop(t)
  <2>1. \A u \in Threads : flag[u] => flag'[u]
    BY <1>2, NotifyRaises DEF DispatchTop
  <2>2. \A u \in Threads : remote'[u] => u # t /\ remote[u]
    BY <1>2 DEF DispatchTop
  <2>3. /\ sched' = sched /\ suspend' = suspend
        /\ dpc' = [dpc EXCEPT ![t] = "pick"]
    BY <1>2 DEF DispatchTop
  <2> QED BY <2>1, <2>2, <2>3
<1>3. CASE DispatchPick(t)
  <2>1. dpc[t] = "pick" /\ UNCHANGED <<sched, suspend, remote, flag>>
    BY <1>3 DEF DispatchPick, wakeVars
  <2>2. \A u \in Threads : u # t => dpc'[u] = dpc[u]
    BY <1>3 DEF DispatchPick
  <2> QED BY <2>1, <2>2
<1>4. CASE DispatchSuspend(t)
  <2>1. \A u \in Threads : u # t => flag'[u] = flag[u]
    BY <1>4 DEF DispatchSuspend, SuspendUntil, RR!SuspendUntil,
                SW!SuspendUntil, WS!SuspendUntil
  <2> QED BY <1>4, <2>1 DEF DispatchSuspend
<1>5. CASE DispatchExit(t)
  <2>1. \A u \in Threads : flag[u] => flag'[u]
    BY <1>5, NotifyRaises DEF DispatchExit
  <2> QED BY <1>5, <2>1 DEF DispatchExit
<1> QED BY <1>1, <1>2, <1>3, <1>4, <1>5 DEF RuntimeStep

(* All the other steps wake or do not.                                     *)
LEMMA OtherStepsWake ==
  ASSUME TypeOK, NEW t \in Threads,
         MainStep(t) \/ FiberStep(t) \/ ClientStep \/ ClientCall
  PROVE  WakesOrNot
<1> USE DEF WakesOrNot, setupVars, poolVars, wakeVars, threadVars
<1>1. CASE MainStep(t)
  BY <1>1 DEF MainStep, UseSchedulingAlgorithm, ConstructorBarrier,
     StartingBlock, FinishLine, RunReturns, PopWork, PopEmpty, GetFuture,
     GetDone, NoWake
<1>2. CASE FiberStep(t)
  BY <1>2 DEF FiberStep, FiberYield, FiberDone, FiberTerminate, NoWake
<1>3. CASE ClientStep
  BY <1>3 DEF ClientStep, Spawn, ConstructorArrives, ConstructorReturns,
     JoinGet, JoinReturns
<1>4. CASE ClientCall
  BY <1>4 DEF ClientCall, Submit, Close, Join, Destroy, EnterJoin, WakeConsumer
<1> QED BY <1>1, <1>2, <1>3, <1>4

(* No wake-up is lost, for any number of threads and each scheduler: a     *)
(* thread whose main context has been readied by another one does not      *)
(* sleep, although suspend_until() waits after the queues were looked at.  *)
THEOREM WakeupCorrect == Spec => []NoLostWakeup
<1>1. Init => WakeInv
  BY DEF Init, WakeInv
<1>2. TypeOK /\ WakeInv /\ [Next]_vars => WakeInv'
  <2> SUFFICES ASSUME TypeOK, WakeInv, [Next]_vars
               PROVE  WakeInv'
    OBVIOUS
  <2>1. CASE UNCHANGED vars
    BY <2>1, WakesOrNotKeeps DEF WakesOrNot, vars, poolVars, threadVars, wakeVars
  <2> QED
    BY <2>1, ThreadZero, RuntimeStepWake, OtherStepsWake, WakesOrNotKeeps
       DEF Next, ThreadStep, Ended
<1>3. WakeInv => NoLostWakeup
  BY DEF WakeInv, NoLostWakeup, Sleeps, Suspends
<1> QED BY <1>1, <1>2, <1>3, TypeCorrect, PTL DEF Spec

-----------------------------------------------------------------------------
(* There is always a context to resume. *)

In(x, s) == \E k \in DOMAIN s : s[k] = x

LEMMA InAppend ==
  ASSUME NEW s \in Seq(Ctx), NEW x \in Ctx, NEW y, In(y, s) \/ y = x
  PROVE  In(y, Append(s, x))
<1> DEFINE r == Append(s, x)
<1>1. /\ r \in Seq(Ctx) /\ Len(r) = Len(s) + 1
      /\ \A i \in 1 .. Len(s) : r[i] = s[i]
      /\ r[Len(s) + 1] = x
  BY AppendProperties
<1>2. /\ Len(s) \in Nat /\ DOMAIN s = 1 .. Len(s)
      /\ DOMAIN r = 1 .. Len(r)
  BY <1>1, LenProperties
<1> HIDE DEF r
<1>3. In(y, r)
  BY <1>1, <1>2 DEF In
<1> QED BY <1>3 DEF r

LEMMA InTail ==
  ASSUME NEW s \in Seq(Ctx), s # << >>, NEW y, In(y, s), y # Head(s)
  PROVE  In(y, Tail(s))
<1>1. /\ Tail(s) \in Seq(Ctx) /\ Len(Tail(s)) = Len(s) - 1
      /\ \A i \in 1 .. Len(Tail(s)) : Tail(s)[i] = s[i + 1]
  BY HeadTailProperties
<1>2. /\ Len(s) \in Nat /\ DOMAIN s = 1 .. Len(s)
      /\ DOMAIN Tail(s) = 1 .. Len(Tail(s))
  BY <1>1, LenProperties
<1>3. PICK k \in DOMAIN s : s[k] = y
  BY DEF In
<1>4. k # 1
  BY <1>3
<1>5. k - 1 \in DOMAIN Tail(s) /\ Tail(s)[k - 1] = y
  BY <1>1, <1>2, <1>3, <1>4
<1> QED BY <1>5 DEF In

(* The dispatcher of u waits in the queue of its own thread.               *)
DispQueued(u) == In(Disp(u), local[u])

(* Whatever the scheduler, awakened() keeps the dispatchers queued and     *)
(* queues the one it is given on its thread.                               *)
LEMMA AwakenedDisp ==
  ASSUME RuntimeTypeOK, NEW t \in Threads, NEW ctx \in Ctx, Awakened(t, ctx),
         NEW u \in Threads, DispQueued(u) \/ (u = t /\ ctx = Disp(t))
  PROVE  DispQueued(u)'
<1>1. CASE local' = [local EXCEPT ![t] = Append(@, ctx)]
  <2>1. CASE u = t
    <3>1. local[u] \in Seq(Ctx) /\ local'[u] = Append(local[u], ctx)
      BY <1>1, <2>1 DEF RuntimeTypeOK
    <3> QED BY <2>1, <3>1, InAppend DEF DispQueued
  <2>2. CASE u # t
    BY <1>1, <2>2 DEF DispQueued, RuntimeTypeOK
  <2> QED BY <2>1, <2>2
<1>2. CASE local' = local /\ ctx \notin Pinned
  BY <1>2 DEF DispQueued, Pinned
<1> QED
  BY <1>1, <1>2 DEF Awakened, RR!Awakened, SW!Awakened, WS!Awakened

(* Whatever the scheduler, pick_next() takes a dispatcher off the queue of *)
(* its thread only to return it there, since steal() refuses it, and it    *)
(* finds a context while the dispatcher is queued.                         *)
LEMMA PickNextDisp ==
  ASSUME RuntimeTypeOK, NEW t \in Threads, NEW ctx, PickNext(t, ctx)
  PROVE  /\ DispQueued(t) => ctx # NoCtx
         /\ \A u \in Threads :
              DispQueued(u) => DispQueued(u)' \/ (u = t /\ ctx = Disp(t))
<1> DEFINE Kept == \A u \in Threads :
              DispQueued(u) => DispQueued(u)' \/ (u = t /\ ctx = Disp(t))
<1>a. \A s \in Seq(Ctx) : s # << >> => Head(s) \in Ctx
  BY HeadTailProperties
<1>b. DispQueued(t) => local[t] # << >>
  <2>1. DOMAIN << >> = {}
    OBVIOUS
  <2> QED BY <2>1 DEF DispQueued, In
<1>c. NoCtx \notin Ctx
  BY ContextAssumption
<1>1. local' = local => Kept
  BY DEF DispQueued
<1>2. ASSUME NEW v \in Threads, local[v] # << >>, ctx = Head(local[v]),
             local' = [local EXCEPT ![v] = Tail(@)],
             v = t \/ ctx \notin Pinned
      PROVE  ctx # NoCtx /\ Kept
  <2>1. local[v] \in Seq(Ctx) /\ local'[v] = Tail(local[v])
    BY <1>2 DEF RuntimeTypeOK
  <2>2. ctx # NoCtx
    BY <1>a, <1>c, <1>2, <2>1
  <2>3. ASSUME NEW u \in Threads, DispQueued(u), ~(u = t /\ ctx = Disp(t))
        PROVE  DispQueued(u)'
    <3>1. CASE u # v
      BY <1>2, <2>3, <3>1 DEF DispQueued, RuntimeTypeOK
    <3>2. CASE u = v
      <4>1. Disp(u) \in Pinned
        BY DEF Pinned
      <4>2. Disp(u) # Head(local[v])
        BY <1>2, <2>3, <3>2, <4>1
      <4> QED BY <1>2, <2>1, <2>3, <3>2, <4>2, InTail DEF DispQueued
    <3> QED BY <3>1, <3>2
  <2> QED BY <2>2, <2>3
<1>3. CASE sched = "round_robin" /\ RR!PickNext(t, ctx)
  BY <1>b, <1>1, <1>2, <1>3 DEF RR!PickNext
<1>4. CASE sched = "shared_work" /\ SW!PickNext(t, ctx)
  <2>1. CASE shared # << >> /\ ctx = Head(shared) /\ local' = local
    BY <1>a, <1>c, <1>1, <2>1 DEF RuntimeTypeOK
  <2>2. CASE /\ local[t] # << >> /\ ctx = Head(local[t])
             /\ local' = [local EXCEPT ![t] = Tail(@)]
    BY <1>2, <2>2
  <2>3. CASE local[t] = << >> /\ local' = local
    BY <1>b, <1>1, <2>3
  <2> QED BY <1>4, <2>1, <2>2, <2>3 DEF SW!PickNext
<1>5. CASE sched = "work_stealing" /\ WS!PickNext(t, ctx)
  <2>1. CASE /\ local[t] # << >> /\ ctx = Head(local[t])
             /\ local' = [local EXCEPT ![t] = Tail(@)]
    BY <1>2, <2>1
  <2>2. ASSUME local[t] = << >>, NEW k \in Threads, NEW v \in schedulers[k],
               WS!Steal(v, ctx)
        PROVE  Kept
    <3>1. v \in Threads
      BY <2>2 DEF RuntimeTypeOK
    <3> QED BY <1>1, <1>2, <2>2, <3>1 DEF WS!Steal
  <2>3. CASE local[t] = << >> /\ local' = local
    BY <1>b, <1>1, <2>3
  <2> QED BY <1>b, <1>5, <2>1, <2>2, <2>3 DEF WS!PickNext
<1> QED BY <1>3, <1>4, <1>5 DEF PickNext

(* A thread that has not ended runs a context, and its dispatcher is       *)
(* running, or just switched out, or queued on that thread.                *)
DispHome(u) ==
  active[u] # NoCtx => active[u] = Disp(u) \/ handover[u] = Disp(u) \/ DispQueued(u)

HomeInv ==
  \A u \in Threads :
    /\ mainpc[u] = "exited" <=> active[u] = NoCtx
    /\ DispHome(u)

(* No thread stops, or loses its dispatcher.                               *)
HomeStays ==
  \A u \in Threads : (active'[u] = NoCtx <=> active[u] = NoCtx) /\ DispHome(u)'

ExitStays ==
  \A u \in Threads : mainpc'[u] = "exited" <=> mainpc[u] = "exited"

LEMMA HomeSame ==
  ASSUME HomeInv, UNCHANGED <<active, handover, local>>
  PROVE  HomeStays
BY DEF HomeInv, HomeStays, DispHome, DispQueued

LEMMA HomeAwakened ==
  ASSUME TypeOK, HomeInv, NEW t \in Threads, NEW ctx \in Ctx, Awakened(t, ctx),
         UNCHANGED <<active, handover>>
  PROVE  HomeStays
BY AwakenedDisp DEF TypeOK, HomeInv, HomeStays, DispHome

(* A context other than the dispatcher that gives up its thread finds one  *)
(* to resume.                                                              *)
LEMMA HomeSwitch ==
  ASSUME TypeOK, HomeInv, NEW t \in Threads, NEW c \in Ctx, c # Disp(t),
         Runs(t, c), NEW back \in Ctx \cup {NoCtx}, Switch(t, back)
  PROVE  HomeStays
<1>1. PICK ctx \in Ctx \cup {NoCtx} :
        /\ PickNext(t, ctx)
        /\ active' = [active EXCEPT ![t] = ctx]
        /\ handover' = [handover EXCEPT ![t] = back]
  BY DEF Switch
<1>2. NoCtx \notin Ctx /\ Disp(t) \in Ctx
  BY ContextAssumption DEF Ctx, Pinned
<1>3. DispQueued(t)
  BY <1>2 DEF Runs, HomeInv, DispHome
<1>4. /\ ctx # NoCtx
      /\ \A u \in Threads :
           DispQueued(u) => DispQueued(u)' \/ (u = t /\ ctx = Disp(t))
  BY <1>1, <1>3, PickNextDisp DEF TypeOK
<1>5. active[t] # NoCtx /\ active'[t] = ctx
  BY <1>1, <1>2 DEF Runs, TypeOK, RuntimeTypeOK
<1>6. \A u \in Threads \ {t} :
        active'[u] = active[u] /\ handover'[u] = handover[u]
  BY <1>1 DEF TypeOK, RuntimeTypeOK
<1>7. ASSUME NEW u \in Threads
      PROVE  (active'[u] = NoCtx <=> active[u] = NoCtx) /\ DispHome(u)'
  <2>1. CASE u = t
    BY <1>3, <1>4, <1>5, <2>1 DEF DispHome
  <2>2. CASE u # t
    BY <1>4, <1>6, <2>2 DEF HomeInv, DispHome
  <2> QED BY <2>1, <2>2
<1> QED BY <1>7 DEF HomeStays

LEMMA HomeNext ==
  ASSUME HomeInv, HomeStays, ExitStays
  PROVE  HomeInv'
BY DEF HomeInv, HomeStays, ExitStays

(* The steps of run().                                                     *)
LEMMA MainStepHome ==
  ASSUME TypeOK, HomeInv, NEW t \in Threads, MainStep(t)
  PROVE  HomeInv'
<1>a. /\ Main(t) \in Ctx /\ Main(t) # Disp(t)
      /\ Main(0) \in Ctx /\ Main(0) # Disp(0)
      /\ NoCtx \notin Ctx /\ Fibers \subseteq Ctx
  BY ThreadZero, ContextAssumption DEF Ctx, Pinned, Main, Disp
<1>b. HomeInv => (mainpc[t] = "exited" <=> active[t] = NoCtx)
  BY DEF HomeInv
<1>1. ExitStays
  <2> USE ThreadZero DEF ExitStays, TypeOK, PoolTypeOK
  <2>1. CASE FinishLine(t)
    BY <2>1 DEF FinishLine
  <2>2. CASE RunReturns(t)
    BY <2>2 DEF RunReturns
  <2>3. CASE UseSchedulingAlgorithm(t) \/ ConstructorBarrier(t) \/ StartingBlock(t)
    BY <2>3 DEF UseSchedulingAlgorithm, ConstructorBarrier, StartingBlock
  <2>4. CASE (\E f \in Fibers : PopWork(f)) \/ PopEmpty \/ GetFuture \/ GetDone
    BY <2>4 DEF PopWork, PopEmpty, GetFuture, GetDone
  <2> QED BY <2>1, <2>2, <2>3, <2>4 DEF MainStep
<1>2. CASE UNCHANGED <<active, handover, local>>
  BY <1>1, <1>2, HomeSame, HomeNext
<1>3. CASE Runs(t, Main(t)) /\ Switch(t, NoCtx)
  BY <1>a, <1>1, <1>3, HomeSwitch, HomeNext
<1>4. CASE Runs(0, Main(0)) /\ Switch(0, NoCtx)
  BY <1>a, <1>1, <1>4, ThreadZero, HomeSwitch, HomeNext
<1>5. ASSUME NEW f \in Fibers, PopWork(f)
      PROVE  HomeInv'
  <2>1. /\ active' = [active EXCEPT ![0] = f]
        /\ handover' = [handover EXCEPT ![0] = Main(0)]
        /\ local' = local /\ active[0] = Main(0) /\ handover[0] = NoCtx
    BY <1>5 DEF PopWork, Runs, queueVars
  <2>2. f # NoCtx /\ Main(0) # NoCtx /\ Disp(0) # NoCtx
    BY <1>a, ThreadZero DEF Ctx, Pinned
  <2>3. DispQueued(0)
    BY <1>a, <2>1, <2>2, ThreadZero DEF HomeInv, DispHome
  <2>4. ASSUME NEW u \in Threads
        PROVE  (active'[u] = NoCtx <=> active[u] = NoCtx) /\ DispHome(u)'
    <3>1. CASE u = 0
      BY <2>1, <2>2, <2>3, <3>1 DEF DispHome, DispQueued, TypeOK, RuntimeTypeOK
    <3>2. CASE u # 0
      <4>1. active'[u] = active[u] /\ handover'[u] = handover[u]
        BY <2>1, <3>2 DEF TypeOK, RuntimeTypeOK
      <4> QED BY <2>1, <4>1 DEF HomeInv, DispHome, DispQueued
    <3> QED BY <3>1, <3>2
  <2>5. HomeStays
    BY <2>4 DEF HomeStays
  <2> QED BY <1>1, <2>5, HomeNext
<1> QED
  BY <1>2, <1>3, <1>4, <1>5
     DEF MainStep, UseSchedulingAlgorithm, ConstructorBarrier, StartingBlock,
         FinishLine, RunReturns, PopEmpty, GetFuture, GetDone, threadVars,
         queueVars

(* The steps of the runtime: what the dispatcher resumes it stays behind.  *)
LEMMA RuntimeStepHome ==
  ASSUME TypeOK, HomeInv, NEW t \in Threads, RuntimeStep(t)
  PROVE  HomeInv'
<1>a. Main(t) \in Ctx /\ Disp(t) \in Ctx /\ NoCtx \notin Ctx
  BY ContextAssumption DEF Ctx, Pinned
<1>1. CASE Handover(t)
  <2>1. /\ handover[t] \in Ctx /\ Awakened(t, handover[t])
        /\ handover' = [handover EXCEPT ![t] = NoCtx]
        /\ UNCHANGED <<active, mainpc>>
    BY <1>1 DEF Handover, TypeOK, RuntimeTypeOK, runVars
  <2>2. ASSUME NEW u \in Threads
        PROVE  DispHome(u)'
    <3>1. DispQueued(u) \/ (u = t /\ handover[t] = Disp(t)) => DispQueued(u)'
      BY <2>1, AwakenedDisp DEF TypeOK
    <3>2. u # t => handover'[u] = handover[u]
      BY <2>1 DEF TypeOK, RuntimeTypeOK
    <3> QED BY <2>1, <3>1, <3>2 DEF HomeInv, DispHome
  <2> QED BY <2>1, <2>2 DEF HomeInv
<1>2. CASE DispatchTop(t)
  <2>1. UNCHANGED <<active, handover, mainpc>>
    BY <1>2 DEF DispatchTop, runVars
  <2>2. Awakened(t, Main(t)) \/ UNCHANGED queueVars
    BY <1>2 DEF DispatchTop
  <2>3. HomeStays
    BY <1>a, <2>1, <2>2, HomeAwakened, HomeSame DEF queueVars
  <2> QED BY <2>1, <2>3, HomeNext DEF ExitStays
<1>3. CASE DispatchPick(t)
  <2>1. PICK ctx \in Ctx \cup {NoCtx} :
          /\ PickNext(t, ctx)
          /\ IF ctx = NoCtx
             THEN UNCHANGED <<active, handover>>
             ELSE /\ active' = [active EXCEPT ![t] = ctx]
                  /\ handover' = [handover EXCEPT ![t] = Disp(t)]
    BY <1>3 DEF DispatchPick
  <2>2. active[t] = Disp(t) /\ mainpc' = mainpc
    BY <1>3 DEF DispatchPick, Runs, runVars
  <2>3. \A u \in Threads :
          DispQueued(u) => DispQueued(u)' \/ (u = t /\ ctx = Disp(t))
    BY <2>1, PickNextDisp DEF TypeOK
  <2>4. ASSUME NEW u \in Threads
        PROVE  (active'[u] = NoCtx <=> active[u] = NoCtx) /\ DispHome(u)'
    <3>1. CASE u = t /\ ctx # NoCtx
      <4>1. active'[t] = ctx /\ handover'[t] = Disp(t)
        BY <2>1, <3>1 DEF TypeOK, RuntimeTypeOK
      <4> QED BY <1>a, <2>2, <3>1, <4>1 DEF DispHome
    <3>2. CASE u = t /\ ctx = NoCtx
      BY <2>1, <2>2, <3>2 DEF DispHome
    <3>3. CASE u # t
      <4>1. active'[u] = active[u] /\ handover'[u] = handover[u]
        BY <2>1, <3>3 DEF TypeOK, RuntimeTypeOK
      <4> QED BY <2>3, <3>3, <4>1 DEF HomeInv, DispHome
    <3> QED BY <3>1, <3>2, <3>3
  <2>5. HomeStays
    BY <2>4 DEF HomeStays
  <2> QED BY <2>2, <2>5, HomeNext DEF ExitStays
<1>4. CASE DispatchSuspend(t)
  <2>1. UNCHANGED <<active, handover, local, mainpc>>
    BY <1>4 DEF DispatchSuspend, runVars, queueVars
  <2> QED BY <2>1, HomeSame, HomeNext DEF ExitStays
<1>5. CASE DispatchExit(t)
  <2>1. /\ mainpc' = [mainpc EXCEPT ![t] = "exited"]
        /\ active' = [active EXCEPT ![t] = NoCtx]
        /\ UNCHANGED <<handover, local>>
    BY <1>5 DEF DispatchExit, queueVars
  <2> QED BY <2>1 DEF HomeInv, DispHome, DispQueued, TypeOK, PoolTypeOK,
                      RuntimeTypeOK
<1> QED BY <1>1, <1>2, <1>3, <1>4, <1>5 DEF RuntimeStep

(* The steps of the fibers.                                                *)
LEMMA FiberStepHome ==
  ASSUME TypeOK, HomeInv, NEW t \in Threads, FiberStep(t)
  PROVE  HomeInv'
<1> PICK f \in Fibers :
       FiberYield(t, f) \/ FiberDone(t, f) \/ FiberTerminate(t, f)
  BY DEF FiberStep
<1>a. f \in Ctx /\ f # Disp(t) /\ Main(0) \in Ctx
  BY ThreadZero, ContextAssumption DEF Ctx, Pinned
<1>1. CASE FiberYield(t, f) \/ FiberTerminate(t, f)
  <2>1. Runs(t, f) /\ mainpc' = mainpc
    BY <1>1 DEF FiberYield, FiberTerminate, runVars
  <2>2. Switch(t, f) \/ Switch(t, NoCtx)
    BY <1>1 DEF FiberYield, FiberTerminate
  <2>3. HomeStays
    BY <1>a, <2>1, <2>2, HomeSwitch
  <2> QED BY <2>1, <2>3, HomeNext DEF ExitStays
<1>2. CASE FiberDone(t, f)
  <2>1. UNCHANGED <<active, handover>>
    BY <1>2 DEF FiberDone, threadVars
  <2>2. Awakened(0, Main(0)) \/ UNCHANGED local
    BY <1>2 DEF FiberDone, queueVars
  <2>3. HomeStays
    BY <1>a, <2>1, <2>2, ThreadZero, HomeAwakened, HomeSame
  <2>4. ExitStays
    BY <1>2, ThreadZero DEF FiberDone, ExitStays, TypeOK, PoolTypeOK
  <2> QED BY <2>3, <2>4, HomeNext
<1> QED BY <1>1, <1>2

(* The steps of the client.                                                *)
LEMMA ClientHome ==
  ASSUME TypeOK, HomeInv, ClientStep \/ ClientCall
  PROVE  HomeInv'
<1>1. CASE ClientStep
  <2>1. UNCHANGED <<active, handover, local>>
    BY <1>1 DEF ClientStep, Spawn, ConstructorArrives, ConstructorReturns,
                JoinGet, JoinReturns, threadVars, queueVars
  <2>2. ExitStays
    BY <1>1 DEF ClientStep, Spawn, ConstructorArrives, ConstructorReturns,
                JoinGet, JoinReturns, runVars, ExitStays, TypeOK, PoolTypeOK
  <2> QED BY <2>1, <2>2, HomeSame, HomeNext
<1>2. CASE ClientCall
  <2>1. UNCHANGED <<active, handover, local>>
    BY <1>2 DEF ClientCall, Submit, Close, Join, Destroy, threadVars, queueVars
  <2>2. mainpc' = mainpc
          \/ (mainpc[0] = "popwait" /\ mainpc' = [mainpc EXCEPT ![0] = "pop"])
    BY <1>2 DEF ClientCall, Submit, Close, Join, Destroy, EnterJoin, WakeConsumer
  <2>3. ExitStays
    BY <2>2, ThreadZero DEF ExitStays, TypeOK, PoolTypeOK
  <2> QED BY <2>1, <2>3, HomeSame, HomeNext
<1> QED BY <1>1, <1>2

(* Whatever gives up a thread, be it a fiber or the main context, which    *)
(* resume what pick_next() returns without looking, never resumes the null *)
(* pointer: the dispatcher of the thread cannot be elsewhere, for any      *)
(* number of threads and each scheduler.                                   *)
THEOREM ResumeCorrect == Spec => []NeverResumesNull
<1>1. Init => HomeInv
  <2> SUFFICES ASSUME Init, NEW u \in Threads
               PROVE  mainpc[u] # "exited" /\ active[u] # NoCtx /\ DispQueued(u)
    BY DEF HomeInv, DispHome
  <2>1. mainpc[u] = "unborn" /\ active[u] = Main(u) /\ local[u] = <<Disp(u)>>
    BY DEF Init
  <2>2. Main(u) # NoCtx
    BY ContextAssumption DEF Ctx, Pinned
  <2>3. DOMAIN <<Disp(u)>> = 1 .. 1 /\ <<Disp(u)>>[1] = Disp(u)
    OBVIOUS
  <2> QED BY <2>1, <2>2, <2>3 DEF DispQueued, In
<1>2. TypeOK /\ HomeInv /\ [Next]_vars => HomeInv'
  <2> SUFFICES ASSUME TypeOK, HomeInv, [Next]_vars
               PROVE  HomeInv'
    OBVIOUS
  <2>1. CASE UNCHANGED vars
    BY <2>1 DEF vars, threadVars, queueVars, runVars, HomeInv, DispHome,
                DispQueued
  <2> QED
    BY <2>1, MainStepHome, RuntimeStepHome, FiberStepHome, ClientHome
       DEF Next, ThreadStep, Ended
<1>3. HomeInv => NeverResumesNull
  BY DEF HomeInv, NeverResumesNull
<1> QED BY <1>1, <1>2, <1>3, TypeCorrect, PTL DEF Spec
=============================================================================
