------------------------- MODULE FiberPoolProperties -------------------------
(***************************************************************************)
(* What class fiber_pool promises and what its schedulers have to keep     *)
(* true for it. The properties are stated for every scheduler, unless one  *)
(* is named.                                                               *)
(***************************************************************************)
EXTENDS FiberPool

(* The types of the variables: first those of the pool and its client,     *)
(* then those of the runtime and the schedulers.                           *)
PoolTypeOK ==
  /\ cpc \in {"ctor", "started", "idle", "push", "join", "dtor", "destroyed",
              "terminated"}
  /\ jidx \in 0 .. ThreadNumber
  /\ joinable \in BOOLEAN
  /\ got \subseteq Threads
  /\ closed \in BOOLEAN
  /\ work \in [Fibers -> {"new", "offered", "dropped", "launched", "value",
                          "exception"}]
  /\ left \in [Fibers -> 0 .. Iterations]
  /\ mainpc \in [Threads -> {"unborn", "new", "constructed", "start", "pop",
                             "popwait", "get", "getwait", "finish",
                             "finishwait", "released", "exiting", "exited"}]
  /\ futures \in Seq(Fibers)
  /\ threw \in BOOLEAN

RuntimeTypeOK ==
  /\ sched \in Schedulers /\ suspend \in BOOLEAN
  /\ active \in [Threads -> Ctx \cup {NoCtx}]
  /\ handover \in [Threads -> Ctx \cup {NoCtx}]
  /\ dpc \in [Threads -> {"top", "pick", "suspend"}]
  /\ remote \in [Threads -> BOOLEAN]
  /\ shared \in Seq(Ctx)
  /\ local \in [Threads -> Seq(Ctx)]
  /\ flag \in [Threads -> BOOLEAN]
  /\ counter \in Nat
  /\ schedulers \in [Threads -> SUBSET Threads]
  /\ id \in [Threads -> Nat]

TypeOK == PoolTypeOK /\ RuntimeTypeOK

-----------------------------------------------------------------------------
(* Contexts and threads. *)

(* Where a context is: owning a thread, being switched out of one, or in a *)
(* ready queue. *)
Holders(ctx) ==
  {<<"active", t>> : t \in {u \in Threads : active[u] = ctx}}
    \cup {<<"handover", t>> : t \in {u \in Threads : handover[u] = ctx}}
    \cup {<<"shared", k>> : k \in {i \in DOMAIN shared : shared[i] = ctx}}
    \cup UNION {{<<"local", t, k>> :
                   k \in {i \in DOMAIN local[t] : local[t][i] = ctx}} :
                 t \in Threads}

(* The main context of t waits, and no thread has readied it yet.          *)
Blocked(t) ==
  mainpc[t] \in {"popwait", "getwait", "finishwait", "exiting", "exited"}

(* A fiber is in one place only, from its launch to the end of its work:   *)
(* it is never run by two threads, never queued while its stack is in use, *)
(* and never lost by a push, a pop or a steal. Until it ends it also keeps *)
(* the thread that has just completed its work.                            *)
OneHolder ==
  \A f \in Fibers :
    /\ work[f] = "launched" => Cardinality(Holders(f)) = 1
    /\ work[f] \in {"new", "offered", "dropped"} => Holders(f) = {}
    /\ work[f] \in {"value", "exception"} =>
         Cardinality(Holders(f)) <= 1
           /\ \A h \in Holders(f) : h[1] = "active"

(* The main and the dispatcher context of a thread stay with it (the       *)
(* comment of awakened(): never put those on the shared queue, and the     *)
(* refusal of pinned contexts by steal()), each in one place only.         *)
PinnedAtHome ==
  \A t \in Threads :
    /\ \A h \in Holders(Main(t)) \cup Holders(Disp(t)) :
         h[1] # "shared" /\ h[2] = t
    /\ Cardinality(Holders(Disp(t))) = IF mainpc[t] = "exited" THEN 0 ELSE 1
    /\ Cardinality(Holders(Main(t)))
         = IF Blocked(t) \/ remote[t] THEN 0 ELSE 1

(* pick_next() may return the null pointer to the dispatcher only: a fiber *)
(* or a main context that gives up its thread resumes what it returns, so  *)
(* the queues of its thread always hold something, the dispatcher if       *)
(* nothing else.                                                           *)
NeverResumesNull == \A t \in Threads : active[t] = NoCtx => mainpc[t] = "exited"

(* A thread of the work-stealing pool probes other schedulers only after   *)
(* all of them have been published in schedulers_, under distinct ids.     *)
SchedulersPublished ==
  sched = "work_stealing" =>
    /\ \A t \in Threads : mainpc[t] \notin {"unborn", "new", "constructed"} =>
         \A k \in Threads : \E u \in Threads : schedulers[k] = {u}
    /\ \A t, u \in Threads :
         {mainpc[t], mainpc[u]} \cap {"unborn", "new"} = {} /\ t # u =>
           id[t] # id[u] /\ schedulers[id[t]] = {t}

(* Thread t is blocked inside suspend_until(). *)
Sleeps(t) ==
  /\ suspend \/ sched = "round_robin"
  /\ active[t] = Disp(t) /\ dpc[t] = "suspend" /\ ~flag[t]

(* No wake-up is lost between the look at the queues and the wait: a       *)
(* thread whose main context was readied by another thread is not asleep.  *)
NoLostWakeup == \A t \in Threads : remote[t] => ~Sleeps(t)

-----------------------------------------------------------------------------
(* The pool. *)

Unfinished == {f \in Fibers : work[f] \in {"offered", "launched"}}
Started == {f \in Fibers : work[f] \in {"launched", "value", "exception"}}

PastFinishLine(t) == mainpc[t] \in {"released", "exiting", "exited"}

(* No thread passes the finish line, hence ends, while a work accepted     *)
(* from the channel is unfinished: the fibers may need any thread.         *)
FinishAfterWork ==
  ~threw => \A t \in Threads : PastFinishLine(t) => Unfinished = {}

(* After a successful join() every thread function has returned, every     *)
(* accepted work has completed, with all its iterations: the assertions at *)
(* the end of benchmark.cpp.                                               *)
JoinAfterWork ==
  ~joinable =>
    /\ Unfinished = {}
    /\ \A t \in Threads : RunReturned(t)
    /\ \A f \in Started : left[f] = 0

(* Thread 0 always collects the futures in launch order and has one to     *)
(* collect for every fiber that still runs.                                *)
FuturesCoverFibers ==
  ~threw => \A f \in Fibers :
    work[f] = "launched" => \E k \in DOMAIN futures : futures[k] = f

(* Only the one client that waits in push() has a work on the channel.     *)
OneOffer ==
  \A f \in Fibers : work[f] = "offered" =>
    /\ cpc = "push" /\ ~closed
    /\ \A g \in Fibers : work[g] = "offered" => g = f

(* Thread 0 goes on to the futures only when the channel is closed, and to *)
(* the finish line only when it has collected all of them.                 *)
CollectsAll ==
  /\ mainpc[0] \in {"get", "getwait", "finish", "finishwait", "released",
                    "exiting", "exited"} => closed
  /\ ~threw /\ mainpc[0] \in {"finish", "finishwait", "released", "exiting",
                               "exited"} => futures = << >>

(* The threads pass the finish line together with thread 0. *)
PassTogether ==
  ~threw => \A t \in Threads : PastFinishLine(t) => PastFinishLine(0)

(* The client has seen run() of the threads before jidx return normally,   *)
(* and of all threads once the pool is not joinable any more.              *)
JoinedInOrder ==
  /\ cpc \in {"join", "dtor"} =>
       /\ joinable /\ closed
       /\ \A u \in Threads : u < jidx => RunReturned(u)
       /\ jidx > 0 => ~threw
  /\ ~joinable => ~threw /\ \A u \in Threads : RunReturned(u)

(* What makes FinishAfterWork and JoinAfterWork inductive.                 *)
PoolInv ==
  /\ FuturesCoverFibers
  /\ OneOffer
  /\ CollectsAll
  /\ PassTogether
  /\ JoinedInOrder
  /\ \A f \in Fibers : work[f] \in {"value", "exception"} => left[f] = 0

(* join() consumes the future of a working thread at most once: get() is   *)
(* not called on a consumed one (the member joinable is there to avoid     *)
(* joining several times).                                                 *)
JoinsOnce ==
  cpc \in {"join", "dtor"} /\ jidx < ThreadNumber => jidx \notin got

(* Thread t has nothing to do: it has not been started or has ended, waits *)
(* at one of the barriers of its start, or sleeps.                         *)
Waits(t) ==
  \/ mainpc[t] \in {"unborn", "exited"}
  \/ mainpc[t] = "constructed"
       /\ \E u \in Threads : mainpc[u] \in {"unborn", "new"}
  \/ /\ mainpc[t] = "start"
     /\ \/ cpc = "ctor"
        \/ \E u \in Threads : mainpc[u] \in {"unborn", "new", "constructed"}
  \/ Sleeps(t)

(* The client waits in the constructor, in submit() or in join().          *)
ClientWaits ==
  \/ /\ cpc = "started"
     /\ \E t \in Threads : mainpc[t] \in {"unborn", "new", "constructed"}
  \/ cpc = "push"
  \/ /\ cpc \in {"join", "dtor"} /\ jidx < ThreadNumber
     /\ jidx \notin got /\ ~RunReturned(jidx)

(* The threads never all wait while the client waits for one of them: not  *)
(* at the barriers, not for the submission channel, not for the finish     *)
(* line, not for a wake-up or a ready fiber nobody looks for. Nor, unless  *)
(* a work has thrown, do they all wait while a fiber is to be run.         *)
NoDeadlock ==
  (\A t \in Threads : Waits(t)) =>
    /\ ~ClientWaits
    /\ ~threw => \A f \in Fibers : work[f] # "launched"

-----------------------------------------------------------------------------
(* Liveness. *)

(* join() and the destructor return.                                       *)
JoinCompletes == cpc \in {"join", "dtor"} ~> cpc \in {"idle", "destroyed"}

(* Once the pool is destroyed all its threads end.                         *)
ThreadsEnd ==
  cpc = "destroyed" ~> \A t \in Threads : mainpc[t] = "exited"

(* Once the pool is closed every thread leaves run(), or the program ends: *)
(* the threads wait for each other only until their fibers are finished.   *)
AllFinish == closed ~> cpc = "terminated" \/ \A t \in Threads : RunReturned(t)

(* A submitted work is eventually launched, whatever the works launched    *)
(* before it do: the fibers have to run concurrently.                      *)
WorksRunConcurrently ==
  \A f \in Fibers : work[f] = "offered" ~> work[f] # "offered"

-----------------------------------------------------------------------------
(* The pool implements the abstract pool of works: an offered work is      *)
(* already accepted, since the channel cannot be closed while its single   *)
(* producer waits in push().                                               *)

PoolState == IF ~joinable THEN "joined" ELSE IF closed THEN "closed" ELSE "open"

Seen(v) ==
  CASE v = "new"                      -> "new"
    [] v = "dropped"                  -> "rejected"
    [] v \in {"offered", "launched"}  -> "accepted"
    [] v \in {"value", "exception"}   -> "done"

WorkState == [f \in Fibers |-> Seen(work[f])]

WP == INSTANCE WorkPool
        WITH Works <- Fibers, pool <- PoolState, work <- WorkState

(* Whatever the scheduler, a client sees a pool that accepts works until   *)
(* it is closed, runs each of them at most once, and is joined only when   *)
(* no accepted one is left; works may throw.                               *)
SafePool == WP!Spec

(* If no work throws it sees every accepted work completed, too.           *)
ImplementsWorkPool == WP!FairSpec
=============================================================================
