# A verification of the fiber pool and of the other examples of this repository

The repository teaches C++ with small programs. One of them is more than an
example: `Boost/Fiber/` holds a pool of threads that runs works on
Boost.Fiber fibers (`fiber_pool.hpp`), two scheduling algorithms written for it
(`pooled_shared_work.hpp`, `pooled_work_stealing.hpp`), a benchmark of the three
and three programs that try fibers, channels and barriers. This directory holds
TLA+ modules of that code, configurations that check them with TLC, and proofs
that TLAPS checks. Paths below are relative to the root of the repository.

Contents: [inventory](#inventory), [modules and the code](#modules-and-the-code),
[runs](#runs), [disagreements found](#disagreements-found), [proofs](#proofs),
[what is left out](#what-is-left-out), [plan](#plan), [use](#use).

## Inventory

### Fiber pool, `Boost/Fiber/fiber_pool.hpp`

*State*: the futures of the threads (`working_threads`), the unbuffered
`submission` channel, the thread barrier `starting_block`, the fiber barrier
`finish_line`, the flag `joinable`, the scheduler `s` and the contexts of the two
pooled schedulers; in `run(0)` the futures of the works.

*Operations*: the constructor starts `run(i)` on `thread_number` threads and
meets them at the starting block; `submit()` pushes a work and waits until it is
taken; `close()` closes the channel; `join()` closes it and gets the future of
every thread; the destructor joins unless that was done. `run(i)` installs the
scheduler, passes the starting block, and on thread 0 takes works from the
channel, starts a fiber for each, collects their futures in order, then passes
the finish line with all other threads.

*Hard*: the client thread, `thread_number` operating system threads and any
number of migrating fibers interleave; three rendezvous follow each other; a work
that throws takes `run(0)` out before the finish line and `join()` out half way.

*Correct means*: a work is run at most once and, unless works throw, every
accepted one is completed; no thread leaves while a work is unfinished; `join()`
returns, and only when everything has ended; it is done once.

### Schedulers, `pooled_shared_work.hpp` and `pooled_work_stealing.hpp`

*State*: shared work has one queue of ready fibers for the pool and one private
queue per thread for the contexts that may not leave it (main, dispatcher); work
stealing has one queue per thread, and the pool context with the vector
`schedulers_`, the counter that hands out the ids, and a barrier. With `suspend`
each has a mutex, a condition variable and a `flag_` to sleep on.

*Operations*, called by the Boost.Fiber runtime: `awakened(ctx)`, `pick_next()`
(which calls `steal()` of other threads' schedulers), `has_ready_fibers()`,
`suspend_until()`, `notify()`; the constructors.

*Hard*: several threads pop the queue that another pushes; a context is queued
while its stack is being left; queues are looked at first and slept on later;
pointers to schedulers are published while others start.

*Correct means*: a context is in one place; main and dispatcher contexts stay on
their thread; a thread that must run something always finds a context; a wake-up
is not lost; ready fibers and the main contexts all get their turn; threads
without work sleep, and only they.

### Benchmark, `Boost/Fiber/benchmark.cpp`

Submits works that yield a number of times, with each scheduler and `suspend`
off and on, and asserts that all of them were done. It is the client, and the
source of the instances below.

### Routers, `fibers_in_threads.cpp` and `fibers_with_threads.cpp`

Two networks of one router, a fiber that moves packets from an ingress to an
egress channel, both bounded.

*First*: three threads, for the router, two producer fibers and two consumer
fibers, share the fibers by work stealing. *State*: the channels, the loop of
each fiber, two barriers, the logger. *Operations*: `write()`, `read()`, the loop
of the router fiber, the start, join and finish line of each thread, `main()` with
the futures and the destructor. *Hard*: channels that are full or empty, readers
that stop one packet before the writers, a thread that is started before the
logger exists. *Correct means*: no packet is lost or overtaken, no thread ends
before the fibers, everybody ends.

*Second*: producer and consumer are threads of their own. *Hard*: the member that
holds the router fiber is written on one thread and joined on another.

### Channel example, `boost_fiber.cpp`

*State*: one buffered channel, two fibers and `main()` on one thread. *Hard*: each
can go on only when another has, on a channel smaller than the message; a comment
(l. 28) says that the program dead-locks. *Correct means*: the assertions hold, the
fibers start when the comments say, all end.

### Algorithms

Bin packing (`obsolete_to_clean_up/bin_packing_best_worst_fit.cpp`), two
backtracking permutations (`permute_string_letters.cpp`,
`permute_unique_string_letters.cpp`), a checker of parentheses
(`test_parenthesis.cpp`), Fibonacci numbers at compile time
(`constexpr/constexpr_fibonacci.cpp`) and a digit puzzle (`quizz/quizz.cpp`).
Sequential; correctness is agreement with a definition that is simpler than the
code. *Hard*: bins that are filled exactly, equal bins, sums that are rounded to
`float`, the position of the first offender, a map and a string shared by all levels of
a recursion, iterators kept over the recursive call.

### Everything else

`Clang/`, `NTTP/`, `meta-programming/`, `non-initializing/`, `ranges/`, `ref/`,
`decouple_algo_data/` and `try_set.cpp` show one language or library feature
each in a straight-line `main()`. They have no state worth a model.

### Interactions

    client thread --submit/close/join--> fiber_pool --std::async--> run(i), i < thread_number
    run(i) --use_scheduling_algorithm--> scheduler of thread i
    Boost.Fiber runtime of thread i --awakened/pick_next/suspend_until/notify--> scheduler of thread i
    scheduler of thread i --steal()--> scheduler of thread j     (work stealing)
    scheduler of thread i <--rqueue_--> scheduler of thread j    (shared work)
    fiber --future--> run(0)           any thread --remote ready queue, notify()--> main context of thread i

## Modules and the code

| module | models | state |
|---|---|---|
| `RoundRobin` | the default algorithm of Boost.Fiber (outside the repository, as `run()` uses it) | its queue `rqueue`, `flag` |
| `PooledSharedWork` | `pooled_shared_work.hpp` | `rqueue` of the pool, `lqueue` and `flag` per thread |
| `PooledWorkStealing` | `pooled_work_stealing.hpp`, the `context_spinlock_queue` build | `rqueue`, `flag`, `id` per thread, `counter` and `schedulers` of the pool |
| `FiberPool` | `fiber_pool.hpp`, the work of `benchmark.cpp`, and the part of the Boost.Fiber runtime they rely on; composes the three above | below |
| `WorkPool` | what a client may rely on: the abstract specification | one state for the pool, one per work |
| `FiberPoolProperties` | the properties, and the refinement mapping to `WorkPool` | |
| `FiberPoolProofs` | theorems about the pool and about the schedulers in it | |
| `HolderProofs` | theorems about the place of every context | |
| `ProgressProofs` | theorems about what threads and client wait for | |
| `MCFiberPool` | the instances for TLC | |
| `BufferedChannel` | the bounded channel of Boost.Fiber (outside the repository, as the examples use it) | its contents |
| `FiberRouter` | `fibers_in_threads.cpp`; two instances of the channel | below |
| `PacketFlow` | what its network promises: the abstract specification | packets sent, under way, read |
| `FiberRouterProofs` | theorems about it | |
| `AsyncRouter` | `fibers_with_threads.cpp`; two instances of the channel | below |
| `AsyncRouterProofs` | theorems about it | |
| `ChannelExample` | `boost_fiber.cpp`, with the channel and the ready queue of its thread | below |
| `ChannelExampleProofs` | theorems about it | |
| `BinPacking` | `bin_packing_best_worst_fit.cpp`, one step per turn of its loops | the weights, the loop and its position, the amounts of the bins |
| `Parenthesis` | `test_parenthesis.cpp`, one step per character | the expression, the position, the level, what `check()` has answered |
| `Fibonacci` | `constexpr_fibonacci.cpp`, one step per turn of its loop | the argument, the two numbers, the turn, what the call does |
| `AlgorithmProofs` | theorems about these three | |
| `Rearrangements` | what permutations are: reference definitions | |
| `PermuteLetters` | `permute_string_letters.cpp`, one step per call, turn and return | the string, the `i` of each call, what was printed |
| `PermuteUnique` | `permute_unique_string_letters.cpp`, in the same way | the string, the map, where its entries are, the iterator of each call, what was printed |
| `PermutationProofs` | theorems about these two | |
| `MCExamples` | the five sequential programs, the channel example and the second router, one at a time; the sequential ones on all inputs up to a length | which program runs |

The operators of the scheduler modules have the names of the member functions and
are not actions by themselves: the runtime calls them in the middle of its steps,
so `FiberPool` conjoins them into its own actions. Which of the three a pool uses,
and whether it suspends, is the constant pair `<<sched, suspend>>`, chosen from
`Configurations` in the initial state: one run covers all the configurations of
the benchmark.

### The steps of `FiberPool`

| code | actions | state |
|---|---|---|
| constructor | `Spawn`, `ConstructorArrives`, `ConstructorReturns` | `cpc` |
| `submit()` | `Submit` (from the push to the wait); `PopWork` ends it | `work`, `cpc = "push"` |
| `close()` | `Close` | `closed` |
| `join()`, destructor | `Join`, `Destroy`, one `JoinGet` per future, `JoinReturns` | `jidx`, `got`, `joinable` |
| `run(i)` | `UseSchedulingAlgorithm`, `ConstructorBarrier`, `StartingBlock`, `PopWork`, `PopEmpty`, `GetFuture`, `GetDone`, `FinishLine`, `RunReturns` | `mainpc`, `futures`, `threw` |
| the work of the benchmark | `FiberYield`, `FiberDone`, `FiberTerminate` | `left`, `work` |
| dispatcher of the runtime | `DispatchTop`, `DispatchPick`, `DispatchSuspend`, `DispatchExit` | `dpc`, `remote` |
| context switch | `Switch` inside the actions above, then `Handover` | `active`, `handover` |

A context is a fiber, the main context of a thread or its dispatcher. Each thread
runs one (`active`). The grain is one step for everything a thread does between
two points where another thread can see or change something: an operation on one
queue under its lock, a barrier, a channel operation, one future.

### The runtime

Boost.Fiber and `std::async` are not in the repository. Their part is modelled
from what the code relies on, and marked external in `PROJECT.json`:

- a context that yields is given to `awakened()` only after the switch, on the
  stack switched to (`handover`, `Handover`): otherwise another thread could
  resume a stack that is in use;
- the dispatcher context loops: main contexts readied by other threads go to the
  ready queue, the next context is picked, or `suspend_until()` is called;
- waking a main context from another thread links it to a remote queue of its
  own thread, then calls `notify()` of that thread's algorithm;
- an unbuffered channel holds one work and its producer waits until it is popped;
  `push()` on a closed channel returns a status, which `submit()` ignores (the work
  is then `"dropped"`);
- a fiber barrier blocks contexts, never threads; the last party wakes the
  others;
- `std::async` starts a thread whose future becomes ready when its function
  returns or throws, before the thread itself ends;
- `get()` on a consumed future is undefined: the model lets it throw or end the
  program;
- an exception out of the destructor ends the program (`"terminated"`).

### The other programs

| module | code | actions |
|---|---|---|
| `FiberRouter` | `main()` | `ConstructRouter`, `CreateConsole`, `LaunchProducer`, `LaunchConsumer`, `GetProducer`, `GetConsumer`, `DestroyRouter` |
| | each thread | `StartingBlock`, `LaunchFiber`, `JoinFibers`, `FinishLine` |
| | the fibers | `Write`, `RouterPop`, `RouterPush`, `Read`, `FiberEnds` |
| `AsyncRouter` | `main()`, destructor | `ConstructRouter`, `LaunchProducer`, `LaunchConsumer`, `GetProducer`, `GetConsumer`, `JoinFiber`, `GetRouter` |
| | the thread of the router and its fiber | `LaunchFiber`, `AssignFiber`, `RouterPop`, `RouterPush`, `RouterWaits`, `RouterEnds` |
| | producer, consumer | `Write`, `Read`, `ThreadReturns` |
| `ChannelExample` | `main()` | `TestPush`, `TestPop`, `TestDone`, `LaunchReceiver`, `LaunchSender`, `Sleep`, `JoinSender`, `JoinReceiver` |
| | the fibers | `Receive`, `Send`, `FiberEnds` |
| `BinPacking` | `main()` | `GenerateObjects`, `WorstFitEnds`, `PrintWorst`, `PrintWorstEnds`, `BestFitEnds` |
| | the two heuristics | `WorstFit`, `BestFit`: one object |
| `Parenthesis` | `main()` | `ReadExpression` |
| | `check()` | `Open`, `Close`, `Throw`: one character; `Return` |
| `Fibonacci` | `fibonacci()` | `Call`, `Advance`: one turn; `ReturnNumber` |
| `PermuteLetters` | `permute()` | `PermuteText`: the outermost call; `BeginLoop`, `PrintText`: what a call does first; `SwapAndRecur`: one turn; `EndLoop` |
| `PermuteUnique` | `permute()` | `PermuteWord` |
| | `perm()` | `PrintPermutation`, `FirstLetter`: what a call does first; `NextLetter`: from the return of one call to the next turn; `EndLetters`; `UseInvalid`: that return with an iterator to an erased entry |

In `FiberRouter` a fiber that was started takes its next step whenever it is not
waiting: the schedulers are those of Boost, and which thread runs which fiber is
left open. In `ChannelExample` it is the other way round: there is one thread, its
ready queue is modelled, and a context runs until it waits, ends or launches
another. In `AsyncRouter` only the router is a fiber, and what matters is when its
constructor returns: with `launch::dispatch` the fiber runs at once, inside the
constructor, until it first waits or ends (`fiber = "running"`); only then is it
moved to the member (`AssignFiber`). The channel keeps one slot of its capacity empty,
so that `capacity` 4 holds three packets; it is never closed.

The priority queue and the multiset of the bin packing are bags of amounts; `Top` and
`LowerBound` are what `top()` and `lower_bound()` find in them. The program computes with
`float`. Amounts are counted here in units so small that every float is a whole number of
them, and `Rounded` is the float that a sum or a difference becomes: any function that
leaves floats alone and keeps order (`PackingAssumption`). `MAX_VAL - e` is a `double`, exact
for the weights that `main()` draws, and rounded when it is stored as a free amount. `MAX_VAL`
is one bin, and `main()` may draw any of `Objects`.

The recursive programs have one stack each, with the local variables of the calls that are in
their loops (`indexes`, `loops`); the string and the map are there once, as the calls share
them by reference. Letters are numbers in the order of the map. The iterator of a loop of
`perm()` is the place (`Slots`) where the entry of its letter was when the loop came to it. An
entry that is inserted again gets any place, as the allocator likes. If `i` was kept over a
recursion in which its entry was erased (l. 48 of a deeper call) and inserted elsewhere (l. 53),
`++(i->second)` and `++i` (l. 60, 41) are undefined: `UseInvalid` ends the model of `perm()`
there. At the same place the use works, as it does in the program.

`counter`, `held` and `threadpc` in `AsyncRouter` and `index` in `ChannelExample` are the `i`, `v` and
positions of the code; the names differ so that `MCExamples` can extend all these modules.
`fibonacci()` has arguments up to 92, as the next number does not fit in `long long int`.

## Runs

| run | instance | shows |
|---|---|---|
| `pool_safety` | 5 configurations, 2 threads, 3 works, one of which may throw, each yields once | all safety properties of pool and schedulers, and the safety part of `WorkPool` |
| `liveness` | 5 configurations, 2 threads, 2 works, no exception | `WorkPool` with its fairness; `join()` and the destructor return; threads end |
| `concurrency` | work stealing without suspend, 2 threads, 3 works that never end | every submitted work starts |
| `shared_work_starves` | shared work, 1 thread, 3 works that never end | found violated, see below |
| `throw_strands` | 5 configurations, 2 threads, 1 work, which may throw | found violated, see below |
| `join_twice` | 5 configurations, 2 threads, 2 works, one of which may throw | found violated, see below |
| `router` | channels of capacity 4, messages of 5 packets | every property of the router network, its liveness, and the refinement of `PacketFlow` |
| `examples` | the programs of `MCExamples`, one at a time. Weights: up to 5 that are floats of two significant bits, from 0 to the 8 units of a bin. Parentheses: expressions of 1 to 7 characters. Permutations: strings of up to 4 letters out of 4, two places for the entry of each. `fibonacci()`: -2 to 20. Channel example: capacities 2, 4 and 8 with seven message lengths from 0 to 10. Second router: capacity 4, messages of 10 packets | agreement with the reference definitions; assertions, order of the starts and termination of the channel example; order of the packets, shut-down and termination of the router |
| `async_router` | the second router, capacity 4, messages of 10 packets | found violated, see below |
| `permute_letters` | up to 3 letters out of 4 | found violated, see below |
| `permute_repeated` | up to 3 letters out of 4, two places for the entry of each | found violated, see below |
| `unclosed` | expressions of 1 to 6 characters | found violated, see below |

**Safety of the pool.** `OneHolder`: from its launch to the end of its work a fiber is active on
one thread, or being switched out of one, or in one queue, once. `PinnedAtHome`:
main and dispatcher contexts are never on the shared queue nor on another thread,
and are not lost. `NeverResumesNull`: a fiber that gives up its thread resumes
whatever `pick_next()` returns, without looking; so there must be something.
`SchedulersPublished`: nobody probes `schedulers_` before every constructor has
stored its pointer, under an id of its own. `NoLostWakeup`: a thread whose main
context has been readied by another is not asleep, although queue and `flag_` are
looked at in two steps. `FinishAfterWork`, `JoinAfterWork`: no thread passes the
finish line, and `join()` does not succeed, while an accepted work is unfinished.
`PoolInv` is the inductive invariant of the [proofs](#proofs), checked here first.
`NoDeadlock`: when every thread waits at a barrier, for the channel, for a future or
in its sleep, the client is not waiting, and unless a work has thrown no fiber is left
to run. TLC's own deadlock check cannot see this: a pool without suspend never stops
taking steps, as its idle threads keep looking for fibers.

**Safety of the router.** `FinishAfterFibers` is the assumption in the header of
the file: a thread that ended would take its scheduler, and the fibers stolen by
it, away. `LogsToConsole`: the thread of the router runs before `main()` has
created the logger, and must be held back until it has; the starting block does
that only because `main()` launches the other two threads afterwards. `RouterInv` is
the inductive invariant behind both. `NoDeadlock`: some fiber, thread or `main()` can
always go on, although five fibers wait for each other around two bounded channels and one
packet more is written than is read.

**The second router.** `ReadsInOrder`: the loop of the consumer never prints its error.
`ShutDown`: when `~router()` has joined the fiber no packet is left in the channels or
in the fiber, and when it is done no thread and no fiber uses them. `AsyncNoDeadlock` and
`AsyncEnds` hold whether the fiber waits inside its own launch, where only its
thread can resume it, or in the loop of the scheduler after the function of the
thread has returned. That `main()` ends does not mean that it returns: see
`async_router`.

**The channel example.** The two fibers share one thread: whoever waits must be put into the
ready queue by the other. `ExampleNoDeadlock` says that there is always a context to run, and
`ExampleReturns` that `main()` returns. Both contradict a comment of the program (l. 28), see
[below](#disagreements-found).

**The sequential programs.** `FollowsHeuristics` compares each step of the two
loops with what the exercise in the header describes, for bins that can be told
apart, while the program keeps only their amounts: however the bins are numbered, the
step is one the exercise allows. `NoTwoBinsFitInOne` relates every two bins, whenever they
were opened: no bin is overfull as the program counts, and none was opened while another had
room. Both are about the rounded amounts, on which the program decides; what the bins really
hold is another matter, see [below](#disagreements-found). `ReportsFirstOffender` says which `)` or foreign
character `check()` reports and where, `BalancedAccepted` that a balanced expression passes;
not everything that passes is balanced (`unclosed`).

`PermutesUnique` is about the calls of `permute()` that end: what is printed and in which order,
and that map and string are restored. `UndefinedIfRepeated` says for which words nothing but
the end can come: those without a repeated letter, wherever the entries of the map are put. With a
repeated letter it is up to the allocator (`permute_repeated`). `PermutesLetters` is what remains true of the other
permutation; `FindsAllPermutations` is what does not. `FibonacciSums` includes the arguments
below 1, for which the loop is not entered. The programs are sequential and run one at a time;
each may be called again after it has ended, so that what a call leaves behind would be seen.

**Refinement.** `PacketFlow` is one queue: producers append their packets in order,
and readers take the oldest, at most `2 * Capacity - 1` packets being under way. The
queue is `egress`, the packet the router fiber holds, and `ingress`, one after the
other; the packet that nobody reads stays in it. `WorkPool` is a pool that is open, closed, then joined; works are
accepted while it is open, rejected when not, each completed once, and joined only
when none is outstanding. The mapping in `FiberPoolProperties` reads the pool's
state off `closed` and `joinable`; a work on the channel is already accepted, since
its only producer cannot close the channel while it waits. `SafePool` is the
safety part and holds also when works throw; `ImplementsWorkPool` adds that
accepted works complete, and needs that none throws.

**Fairness.** Weak fairness for each operating system thread (`ThreadStep(t)`: a
thread that can go on is scheduled eventually) and for the client inside a call
(`ClientStep`). Which calls the client makes, and whether it makes any, is not
fair. There is no fairness per fiber or per context: which context a thread runs
is for the schedulers, and that they get this right is what is checked.

For the routers, weak fairness for `main()`, for each thread and for each fiber: the
operating system schedules the threads, and as no thread ends before the fibers do
(`FinishAfterFibers`), some thread picks up every fiber that can go on. The channel
example has one thread, which is scheduled; which context it runs is modelled. In the second
router the function of its thread and the fiber share one thread and one fairness
condition (`RouterStep`), as they run in turns.

**Bounds.** Two threads are the least with a remote wake-up, a thief and a victim;
the [proofs](#proofs) cover two thieves of one victim and every larger number.
Three works are more than there are threads, so that a fiber waits in a queue while
others run, and the main context waits behind them. One iteration makes a fiber
leave its thread and come back, maybe on another; the works that never end cover
every larger number for liveness. One work that throws is enough: after it no
future is looked at. A client calls the member functions in any order, as
often as it likes, until the pool is destroyed. Works of equal behaviour are
interchangeable; the symmetry is used in the runs of invariants and safety only.
`counter` grows once per thread, and no other variable is a counter without bound.
In the router run a message of five packets is longer than a channel of capacity 4,
and the two messages together longer than both channels, so that each side waits
for the other; the proofs hold for all sizes. The channel example takes lengths
below, at and above what each channel holds, and the constants of the program; the second
router those of its program, ten packets through channels of three.
Five weights make the heuristics differ, and fill bins exactly and by rounding; two significant
bits are the fewest with which a sum, a difference and the room of a new bin are all rounded, up
and down. Seven characters include every nesting three deep. Four letters of four kinds
(three in `permute_repeated` and `permute_letters`) are enough for a letter that is left in the
map and one that is erased from it at the same time, at each of two levels with a loop above
and below them; two letters show an iterator kept too long, three the missing swap. Two places
for the entry of a letter are where it was and elsewhere. Slots are numbered per letter: that two
letters never share a place takes nothing away, as an iterator to the place of another letter is as
invalid as one to no place.

## Disagreements found

1. **Shared work starves its main contexts** (`shared_work_starves`).
   `pick_next()` (`pooled_shared_work.hpp:125`) looks at the private queue only
   when the shared one is empty. Fibers that only yield, one more than there are
   threads, keep it non-empty; main contexts never run again. Thread 0 then takes
   no further work from the channel and `submit()` never returns, although the
   pool is meant for fibers that "have to run concurrently" (`fiber_pool.hpp:5-6`).
   With work stealing whose threads do not sleep (`suspend = FALSE`) the run
   `concurrency` shows the opposite. With `suspend` they may sleep: see the end of this section.
2. **`join()` after an exception** (`join_twice`). A work that throws makes
   `join()` leave at `fiber_pool.hpp:113`, with `joinable` still true and the
   future of thread 0 consumed. The destructor joins again and calls `get()` on
   it. `joinable` is there "to avoid joining several times" (l. 48).
3. **An exception leaves the other threads at the finish line** (`throw_strands`). The same
   exception has left `run(0)` at l. 161, before the finish line (l. 164), which
   lacks its last party from then on: the other threads wait there for ever, where they
   "wait for all the threads to finish their fiber execution" (l. 163). The promises of
   `FinishAfterWork` and `ImplementsWorkPool` have the premise that no work throws.
4. **The fiber that is joined too early** (`async_router`). In
   `fibers_with_threads.cpp` the member `f` is assigned on the thread of the router
   when the constructor of the fiber returns, which is after its first wait. If
   it never has to wait it forwards all packets first; the consumer reads them,
   `main()` reaches the destructor, and `f.join()` (l. 87) finds no fiber and throws out of it.
   The line is there "to avoid calling std::terminate on destruction". Waiting for the
   thread (l. 88) first would order the two. Only `f.join()` before the assignment is in the
   model; both at the same time are a data race.
5. **Permutations that are not found** (`permute_letters`).
   `permute_string_letters.cpp:36` swaps a letter to the current level and never
   back. For `abc` it prints `abc acb cab cba abc acb`: `bac` and `bca` are missing, against "find all
   permutations" (l. 13).
6. **An iterator to an erased entry** (`permute_repeated`). In
   `permute_unique_string_letters.cpp` the loop keeps `i` when its letter stays in the map
   (l. 56-60). With a repeated letter, as in `aa` or the `repeat` of `main()`, a deeper call
   takes the last instance, erases the entry (l. 48) and inserts a new one (l. 53). The caller
   then uses the iterator to the old one (l. 60, 41), which is undefined. It works where
   the allocator gives the memory back at once. The comment (l. 39-40) says that the code needs
   "to manage the iterator".
7. **Open parentheses pass** (`unclosed`). `check()` does not look at the level when the string
   ends (`test_parenthesis.cpp:47`), so `(` is accepted, against the exercise (l. 16-20). What
   passes is what is balanced or only lacks `)` at its end, and nothing else: that is the
   theorem `CompletableSilent`.

Each of these is a run and a finding of `PROJECT.json`. Three more came up, for which there is no run.

*The comment "Just adding the message dead-locks"* (`boost_fiber.cpp:28`) speaks of the output at
l. 29-30, which is in the program. Writing to `std::cerr` may hold the thread up but switches to no
other fiber and changes nothing that another waits for, so the model has no step for it:
`ExampleNoDeadlock` and `ExampleReturns` are about the program with this output, at the capacity
and the length that it has (4 and 10) and at others, and `ExampleNeverDeadlocks` about all of
them. They contradict the comment, which may describe an earlier version of the program or
a defect of a library; nothing in the code gives a reason for it.

*Bins above one kilogram.* The sum of two floats is rounded before it is
compared with `MAX_VAL` (`bin_packing_best_worst_fit.cpp:53`): 0.75 and 0.25 + 2^-25 share
a bin, while the exercise has "each bin holding one kilogram at most" (l. 15-16). `Rounded` has
this effect in the model, where 8 and 1 units share a bin of 8; the properties therefore
speak of what the program counts and not of what the objects weigh.

*Nobody wakes the sleepers.* With `suspend` neither pooled scheduler notifies other threads when
a fiber becomes ready (`awakened()`, `pooled_shared_work.hpp:117`, `pooled_work_stealing.hpp:130`).
A thread that went to sleep before works arrived sleeps on while fibers it could take are ready,
up to the finish line. No comment promises otherwise, and works complete all the same
(`ImplementsWorkPool`): what is lost is concurrency.

## Proofs

### The pool

`FiberPoolProofs` proves, for every number of threads, every set of works and every
set of configurations, from `PoolAssumption` (at least one thread, and the
sets of works are subsets of `Fibers`) and `ContextAssumption` (fibers, pinned
contexts and the null pointer differ):

| theorem | states |
|---|---|
| `TypeCorrect` | `Spec => []TypeOK` |
| `PoolInvariant` | `Spec => [](PoolTypeOK /\ PoolInv)` |
| `FinishLineCorrect` | `Spec => []FinishAfterWork` |
| `JoinCorrect` | `Spec => []JoinAfterWork` |
| `PoolRefinesWorkPool` | `Spec => SafePool` |

*Types.* Each scheduler operation preserves the types of the queues whatever
context it is given; these are lemmas, one per operation, so that the steps of the
pool need not look inside the schedulers. What the pool promises does not depend
on the scheduling: that is what the proof shows, as it uses nothing else
about it.

*The invariant.* `FinishAfterWork` is not inductive: that no work is unfinished at
the finish line follows from what thread 0 did before. `PoolInv` remembers it.
Every running fiber has a future that thread 0 has not collected
(`FuturesCoverFibers`); a work on the channel means that the client waits and the
channel is open (`OneOffer`); thread 0 goes to the futures only when the channel is
closed, and on only when none is left (`CollectsAll`); so at the finish line no
fiber runs and no work is on the channel. Other threads pass it only together with
thread 0 (`PassTogether`), the only place where the proof needs that the barrier
counts `thread_number` parties. `join()` counts only threads that have returned
(`JoinedInOrder`), and if none threw they all passed the finish line; hence
`JoinAfterWork`. The last conjunct says that a completed work did all its
iterations. After an exception (`threw`) thread 0 leaves without its futures and
without the finish line: `FuturesCoverFibers`, the second half of `CollectsAll`,
`PassTogether` and `FinishAfterWork` carry the premise that there was none.
`JoinAfterWork` has no such premise, as `join()` does not succeed then.

*Refinement.* Each step of the pool is a step of `WorkPool` or leaves its state
alone: `Submit` accepts or rejects, `FiberDone` completes, `Close`, `Join` and
`Destroy` close, `JoinReturns` joins; that nothing is outstanding there is
`JoinAfterWork` for the state before the step, by `JoinedInOrder`.

### The schedulers

The second part of `FiberPoolProofs` builds on `TypeCorrect` and has the same assumptions.

| theorem | states |
|---|---|
| `SchedulersPublishedCorrect` | `Spec => []SchedulersPublished` |
| `WakeupCorrect` | `Spec => []NoLostWakeup` |
| `ResumeCorrect` | `Spec => []NeverResumesNull` |

*Publication.* `BuildInv`: the counter is the number of the schedulers built so
far, each is published under its identifier, no index below the counter is free,
and whoever is past the barrier has seen all of them built. When a thread takes the
next identifier it has none itself, so that fewer than `ThreadNumber` are built and
the identifier is an index of the vector; this is where cardinalities are needed.

*Wake-up.* `NoLostWakeup` speaks of a thread that sleeps, but the flag that wakes
it is raised before. `WakeInv`: from the moment a main context is readied by another
thread the flag of its thread is up, until the dispatcher is back at the head of its
loop, where it looks at the remote queue. Only the dispatcher lowers the flag, and only on
its way there.

*Resume.* `HomeInv`: the dispatcher of a thread runs on it, or was just switched
out, or is queued there. So a fiber or a main context that gives up its thread
finds at least the dispatcher in the queue. That holds whatever the other threads do because
`steal()` refuses pinned contexts and `awakened()` keeps them off the shared queue.

### The contexts

`HolderProofs` builds on `TypeCorrect` and the lemmas about sequences of
`FiberPoolProofs`, with the same assumptions.

| theorem | states |
|---|---|
| `HolderInvariant` | `Spec => [](TypeOK /\ HolderInv)` |
| `OneHolderCorrect` | `Spec => []OneHolder` |
| `PinnedCorrect` | `Spec => []PinnedAtHome` |

*Where a context is.* The properties count the places of a context; the proof counts
only at its end. `PlaceInv` says that no two places hold the same context and that a
pinned one is on its thread: no queue has a duplicate, no context is in two
queues, none that owns a thread or was just switched out of one is queued. What the three
schedulers do to the queues is proved once: `awakened()` adds a context that was in
none (`AwakenedQueued`), and `pick_next()` takes one away, a pinned one only on its thread
(`PickNextPicks`). From there on every step is one of seven moves (the
lemmas `Places...`), each with the contexts it makes appear, disappear or lie down
(`Changes`).

*Which contexts are somewhere.* `awakened()` must not be given a context that already is
somewhere, and this depends on what the program does. `HeldInv` says it: a fiber from its
launch on; a dispatcher until its thread ends; a main context unless it waits or
is linked to the remote ready queue. So when `FiberDone` or `DispatchTop` readies a
main context, that context is in no queue, and the channel, a future and the finish
line never ready the same context twice. The fiber of a completed work is in no
queue either, only on the thread that ran it, until it ends.

### Waiting

`ProgressProofs` builds on `PoolInv`, `HolderInv` and `NoLostWakeup`, with the same
assumptions.

| theorem | states |
|---|---|
| `StageInvariant` | `Spec => []StageInv` |
| `SuspendInvariant` | `Spec => [](SuspendInv /\ SharedInv)` |
| `PoolNeverDeadlocks` | `Spec => []NoDeadlock` |

*Stages.* `StartInv`: the client waits in the constructor only while some thread has not
come to the starting block, and no work is submitted before. `ReceiveInv`: only thread 0
waits for the channel and for futures, for the channel only while it is open and
nothing is offered, for a future only while its work runs. `FinishInv`: the last party of
the finish line does not wait there, and all threads pass it with thread 0.

*Sleep.* A dispatcher calls `suspend_until()` only after it has found the queue of its
thread empty, and what the thread itself could still do is then nothing
(`SuspendInv`). With shared work the fibers are in a queue of the pool that a sleeper
does not watch: `SharedInv` says that somebody is awake while there is one in it. A
thread leaves that queue to the others only when it found it empty, and the only
one to fill it is a thread that is awake; that no sleeper is notified is therefore a
loss of concurrency, never a deadlock.

*The argument.* If every thread waits, none has a fiber, by the invariants of the
contexts and by `SharedInv`; so no launched work is unfinished, unless one has thrown.
A client in `submit()` has a work on the channel, and thread 0 does not wait for
one, nor for a future, as those works are done, nor at the finish line, which it reaches only after
the channel was closed. A client in `join()` has closed the channel; thread 0
is then past the finish line, and so are the others.

### The router

`FiberRouterProofs` proves, for every `Capacity` of at least 2 and every
`MessageLength` of at least 1 (`RouterAssumption`):

| theorem | states |
|---|---|
| `RouterTypeCorrect` | `Spec => []RouterTypeOK`, and that the router fiber holds a packet only before its last turn |
| `RouterInvariant` | `Spec => []RouterInv` |
| `FinishCorrect` | `Spec => []FinishAfterFibers` |
| `LogsCorrect` | `Spec => []LogsToConsole` |
| `RouterRefinesPacketFlow` | `Spec => FlowSafe` |
| `FlowEndInvariant` | `Spec => []FlowEndInv` |
| `RouterNeverDeadlocks` | `Spec => []NoDeadlock` |

*The invariant.* A thread is at the finish line only after it has joined its own
fibers (`JoinedFirst`), and one passes it only when all are there
(`FinishTogether`); so once one has returned, all fibers have ended. `main()`
ends after the thread of the router. A fiber exists only after the starting block
of its thread, which needs all three threads (`StartTogether`), and `main()`
starts two of them after it has created the logger (`LaunchedOnce`).

*Refinement.* `Write` is `Send`, `Read` is `Receive`, and the steps of the router
fiber leave the concatenation of the three parts as it is; lemmas about
concatenation, `Append`, `Head` and `Tail` carry this. A message has room in
`PacketFlow` whenever it has in `ingress`, by the bounds of the other two parts.

*No deadlock.* `FlowInv` counts: what the producers have written is what the consumers
have read, what is under way, and nothing else. If all fibers wait or are done, the
router waits for a full egress, whose readers do not wait, or for an empty ingress, whose
writers do not, or is done; in each case the counts leave only one way, which is that every
loop is complete (`AllDone`: linear arithmetic). That needs room for a packet in
each channel, hence `Capacity >= 2`. `EndInv` carries it from the fibers to the
threads that join them and to `main()`.

### The second router

`AsyncRouterProofs` proves, for every `Capacity` of at least 2 and every
`MessageLength` (`AsyncAssumption`):

| theorem | states |
|---|---|
| `AsyncTypeCorrect` | `AsyncSpec => []AsyncTypeOK`, and that the router fiber holds a packet only before its last turn |
| `PacketInvariant` | `AsyncSpec => []PacketInv` |
| `PacketsInOrder` | `AsyncSpec => []ReadsInOrder` |
| `LifeInvariant` | `AsyncSpec => []LifeInv` |
| `AsyncShutsDown` | `AsyncSpec => []ShutDown` |
| `AsyncNeverDeadlocks` | `AsyncSpec => []AsyncNoDeadlock` |

*The invariant.* `PacketInv` numbers the packets from the counter of the consumer to that
of the producer: each is where its number says, in `egress`, in the fiber or in
`ingress`. `LifeInv` orders the threads: which have been launched and have returned at each
line of `main()`, that the member holds the fiber exactly once the function of
the thread has returned, and that loops end when they are complete. When both clients are
done the counts leave nothing under way (`AllPassed`); hence `ShutDown`. For `AsyncNoDeadlock`,
a function that has not returned waits for a fiber that runs; after it has, clients and fiber
that wait are all done (`AllDone`, as above).

What fails, `NeverTerminates`, is the one thing `LifeInv` does not order: the assignment of the
member and the end of `main()`.

### The channel example

`ChannelExampleProofs` proves, for all capacities of at least 2 and all lengths
(`ExampleAssumption`):

| theorem | states |
|---|---|
| `ExampleInvariant` | `ExampleSpec => [](ExampleTypeOK /\ ExampleInv)` |
| `AssertionsCorrect` | `ExampleSpec => []AssertionsHold` |
| `StartOrderCorrect` | `ExampleSpec => []StartOrder` |
| `ExampleNeverDeadlocks` | `ExampleSpec => []ExampleNoDeadlock` |

*The invariant.* On one thread the life of the program is a sequence of phases: `main()`
tests the channel, the receiver starts, the sender is launched, they alternate, what is
left is drained, all is joined. `ExampleInv` says for each phase who runs, what is in the
ready queue and who waits, and for all of them what the channel holds (`ChannelInv`) and
what those who wait are waiting for (`ProgressInv`).

### Bin packing, parentheses, Fibonacci numbers

`AlgorithmProofs` proves, for any `MAX_VAL`, any weights up to it that are floats, and any
rounding that leaves floats alone, `MAX_VAL` among them, and keeps order
(`PackingAssumption`; to the nearest or in one direction, with any number of bits), for
expressions of any length over any characters (`ExpressionAssumption`), and for
every argument up to 92 (`ArgumentAssumption`):

| theorem | states |
|---|---|
| `PackInvariant` | `PackSpec => []PackInv` |
| `NoBinTooMany` | `PackSpec => []NoTwoBinsFitInOne` |
| `HeuristicsCorrect` | `PackSpec => FollowsHeuristics` |
| `CheckInvariant` | `CheckSpec => []CheckInv` |
| `FirstOffenderReported` | `CheckSpec => []ReportsFirstOffender` |
| `CompletableSilent` | `CheckSpec => []SilentWhenCompletable` |
| `BalancedNeverReported` | `CheckSpec => []BalancedAccepted` |
| `FibonacciCorrect` | `FibSpec => []FibonacciSums` |

*Induction.* The induction theorems of the library take an operator, which the provers cannot
instantiate. `LeastNatural` (by well-foundedness) and `Induction` take a set instead, and the
set is `{n \in Nat : ...}` at each use. `RecExists` and `RecForever` show that a function exists that is
given by its first value and by each next one; from them come what `SumTo`, `Fib` and `Factorial`
compute, since a recursive function is to the prover a `CHOOSE` that may have chosen nothing.

*Bin packing.* A new bin is opened only when the object does not fit in the bin that the queue
or `lower_bound()` offers. That it then fits in no bin needs the least amount to exist: that
is `LeastNatural` again. Of the rounding the order is used (`RoundedOrder`): an object that does not fit after
rounding does not fit in a fuller bin either, no bin becomes emptier by a sum
(`RoundedMore`), and room gets no larger by a difference (`RoundedLess`). `PackInv` says of two
bins of the best fit what can be said of rounded room: one of them is too small for some
weight that alone would leave at least the room of the other
(`OpenedFor`). Bags are compared by the copies they hold, since two bins
with the same amount are one element of the bag (`BagsEqual`, `AddCopies`,
`RemoveCopies`). For `HeuristicsCorrect` the bag of a numbered packing changes with one of its bins
as the program changes its own (`ToBagAppend`, `ToBagOther`), by cardinalities. What the bins really
weigh is not among the theorems: it is not kept.

*Parentheses.* `ReportsFirstOffender` speaks of answers; while the loop runs, `CheckInv` adds
that the level is the number of `(` less the number of `)` before the position, and
that nothing before it has offended. `CountStep` counts one character more. `CompletableSilent` says
what the checker misses: an expression passes exactly if it is balanced or only lacks
`)` at its end. That a balanced one passes (`BalancedNeverReported`) is one half; the other is what the
exercise does not want, and no property of a run. For
`CompletableSilent` the places of the parentheses must be paired without crossings when no prefix has
more `)` than `(`: `OpenPairs` and `ClosePairs` extend the pairs by one character, the
last open `(` being taken (`GreatestNatural`), and the string completed by the missing `)` is balanced
(`BalancedCompletion`). Conversely pairs bound the counts of every prefix (`CountsBalance`).

*Fibonacci numbers.* `FibInv`: in the loop, `u_n` and `u_n_minus_1` are two numbers in a row.

### Permutations

`PermutationProofs` proves, for strings of any length over any set of letters that are
integers (`TextAssumption`; their order is all that is used), and for any set of places:

| theorem | states |
|---|---|
| `LettersInvariant` | `PermuteSpec => []LettersInv` |
| `LettersPermuted` | `PermuteSpec => []PermutesLetters` |
| `UniqueInvariant` | `UniqueSpec => []UniqueInv` |
| `DistinctDefined` | `UniqueSpec => []UndefinedIfRepeated` |
| `UniquePermuted` | `UniqueSpec => []PermutesUnique` |

*The letters swapped.* `PermutesLetters` speaks of the end of the outermost call. On the way
(`CallsOK`), a call at level `k` whose `i` is at `indexes[k]` has finished `indexes[k] - k` turns, and each has
printed the `(n - k)!` orders of the letters after it; `PrintedBy` sums this over the levels. A
return turns the whole share of a call into one finished turn of its caller
(`EndCounts`, `ReturnCounts`). A swap keeps the bag of the letters (`SwapBag`), and until
the first string is printed every swap is one of a letter with itself (`StringOK`).

*The distinct permutations.* `UniqueInv` has three parts. `MapOK`: every letter is as often in the map
and in the string that is built as in the word. `LoopsOK`: a call has erased its letter exactly if
the string holds all instances of it up to there; this is what makes the insertion and the count on
the way back right (`MapUp`), although the branch is taken before the recursion and the map is
changed by all calls below. All this holds up to the first use of an iterator whose entry is
elsewhere; from there on (`"undefined"`) `UniqueInv` says only that the letter of the loop is
repeated: the string holds one instance and the map had another (`UseInvalidKeeps`, with
`TwoPlaces`). That is `DistinctDefined`. `CalledOK` and `ReturnedOK`: before a call, what is printed
is every rearrangement that comes before its string, and after it those that begin with its string
too. Between two letters of a loop nothing is lost, because the next letter of any rearrangement that
begins with the string is in the map (`LettersLeft`, `NextLetterLeft`) and `++i` finds the least
letter after the last one. `BeginOK` keeps one such rearrangement at hand, so that an empty map means
a complete string; a letter of the map is swapped to the front of it (`BeginDown`).

### Only model-checked

The liveness properties and the fairness parts of both refinements: liveness
under fairness and ENABLED are out of the prover's reach. Every invariant that a passing run
checks is a theorem.

## What is left out

- The single-producer queue build of the work-stealing scheduler, chosen by the
  preprocessor (its `context_spmc_queue` is in Boost), and `launch::post`, which
  is commented out.
- Fibers that sleep (`suspend_until()` with a deadline), or that submit works
  themselves: neither the pool nor the benchmark has them. Several clients at once.
- Mutex and condition variable of `suspend_until()` and `notify()` are one atomic
  step each. The window between the look at the queues and the wait is modelled.
- The loop of `pick_next()` that draws victims at random: any one thread may be
  the last one probed, which covers every outcome of the draws, also that threads
  with work are missed.
- The destructor of the work-stealing scheduler. The vector `schedulers_`
  (`pooled_work_stealing.hpp:69`) owns the schedulers and each of them owns the pool
  context with that vector. Nothing resets either, so that the count of owners of a
  scheduler does not reach zero when its thread ends, and the destructor (l. 114) with
  its barrier never runs. The counts are those of Boost and of the standard
  library; a model of them would say no more than this paragraph.
- In `FiberRouter`, the queues and the sleep of the algorithm of Boost, and what
  `spdlog` does with the messages.
- The format of `float` in the bin packing: any monotone rounding is one. The `double`
  difference `MAX_VAL - e` is exact, as it is for the multiples of a power of two that
  `main()` draws, up to its own rounding to `float`. Which weights are drawn (any may be).
- What `perm()` does after it has used an iterator to a freed entry; the places of the entries
  of a map beyond this, which are numbered per letter.
- The output of the channel example: it switches to no fiber.
- The end of the input of the parenthesis checker, and the permutations of the
  standard library in `permute_unique_string_letters.cpp`.
- `quizz/quizz.cpp`: one loop over the 10! assignments of digits; a definition to compare it
  with would be the program again.
- The one-page examples of the language: `Clang/`, `NTTP/`, `meta-programming/`,
  `non-initializing/`, `ranges/`, `ref/`, `decouple_algo_data/`, `try_set.cpp`.
- Memory order of the atomics, times, output.

## Plan

Done: the pool with its schedulers, both routers, the channel example, the
sequential programs, the abstract pool and the abstract network, their runs, and the theorems above.
What could follow:

1. Finer grain: the probing loop of `pick_next()`, the mutex and the condition
   variable of `suspend_until()`.
2. Several clients of one pool, and works that submit works.

## Use

    tlc -config pool_safety.cfg MCFiberPool
    tlc -config router.cfg FiberRouter
    tlc -config examples.cfg MCExamples
    tlc -config async_router.cfg AsyncRouter
    tlapm FiberPoolProofs.tla
    tlapm HolderProofs.tla
    tlapm ProgressProofs.tla
    tlapm FiberRouterProofs.tla
    tlapm AsyncRouterProofs.tla
    tlapm ChannelExampleProofs.tla
    tlapm AlgorithmProofs.tla
    tlapm PermutationProofs.tla

`PROJECT.json` lists components, runs, the line ranges each definition models,
findings, hazards and theorems, and for each checked property a wrong variant of
the code that violates it. Those variants are the definitions commented
"Wrong on purpose"; no specification uses them.
