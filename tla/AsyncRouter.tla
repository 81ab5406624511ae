----------------------------- MODULE AsyncRouter -----------------------------
(***************************************************************************)
(* Boost/Fiber/fibers_with_threads.cpp: the router is a fiber of a thread  *)
(* of its own, the producer and the consumer are threads. Each thread has  *)
(* the round-robin scheduler of Boost.Fiber, so the fiber stays where it   *)
(* was started, and runs there alternately with the function of the thread.*)
(***************************************************************************)
EXTENDS Integers, Sequences

CONSTANTS
  Capacity,       \* capacity
  MessageLength   \* message_length

ASSUME AsyncAssumption ==
  /\ Capacity \in Nat /\ Capacity >= 2
  /\ MessageLength \in Nat

Threads == {"router", "producer", "consumer"}
Clients == {"producer", "consumer"}

VARIABLES
  mainpc,    \* what main() is doing
  threadpc,  \* where each thread is
  counter,   \* the loop counters i of the clients and of the router fiber
  f,         \* the member f of the router holds the fiber
  fiber,     \* the state of the router fiber
  held,      \* the packet v it holds, if any
  ingress, egress

asyncVars == <<mainpc, threadpc, counter, f, fiber, held, ingress, egress>>

In == INSTANCE BufferedChannel WITH capacity <- Capacity, channel <- ingress
Out == INSTANCE BufferedChannel WITH capacity <- Capacity, channel <- egress

-----------------------------------------------------------------------------
(* main() *)

(* std::async: main() goes on while thread t starts.                       *)
Launch(t, next) ==
  /\ mainpc' = next
  /\ threadpc' = [threadpc EXCEPT ![t] = "run"]
  /\ UNCHANGED <<counter, f, fiber, held, ingress, egress>>

ConstructRouter == mainpc = "router" /\ Launch("router", "producer")
LaunchProducer == mainpc = "producer" /\ Launch("producer", "consumer")
LaunchConsumer == mainpc = "consumer" /\ Launch("consumer", "get producer")

(* get() of the future of thread t.                                        *)
Get(t, next) ==
  /\ threadpc[t] = "returned"
  /\ mainpc' = next
  /\ UNCHANGED <<threadpc, counter, f, fiber, held, ingress, egress>>

GetProducer == mainpc = "get producer" /\ Get("producer", "get consumer")
GetConsumer == mainpc = "get consumer" /\ Get("consumer", "join")

(* Wrong on purpose: the destructor detaches the fiber.                    *)
JoinFiberAnyway ==
  /\ mainpc = "join"
  /\ \/ f /\ mainpc' = "get router"
     \/ ~f /\ mainpc' = "terminated"
  /\ UNCHANGED <<threadpc, counter, f, fiber, held, ingress, egress>>

(* f.join() in ~router(): a fiber object without a fiber cannot be joined, *)
(* it throws, and an exception out of a destructor ends the program.       *)
JoinFiber ==
  /\ mainpc = "join"
  /\ \/ f /\ fiber = "ended" /\ mainpc' = "get router"
     \/ ~f /\ mainpc' = "terminated"
  /\ UNCHANGED <<threadpc, counter, f, fiber, held, ingress, egress>>

(* fiber_runner.get() *)
GetRouter == mainpc = "get router" /\ Get("router", "end")

-----------------------------------------------------------------------------
(* The thread of the router and its fiber.                                 *)

(* launch::dispatch: the new fiber runs at once, inside its constructor.   *)
LaunchFiber ==
  /\ threadpc["router"] = "run"
  /\ threadpc' = [threadpc EXCEPT !["router"] = "assign"]
  /\ fiber' = "running"
  /\ UNCHANGED <<mainpc, counter, f, held, ingress, egress>>

(* Only when the fiber waits or has ended does the constructor return, is  *)
(* the fiber moved to the member, and does the function of the thread      *)
(* return.                                                                 *)
AssignFiber ==
  /\ threadpc["router"] = "assign" /\ fiber # "running"
  /\ f' = TRUE
  /\ threadpc' = [threadpc EXCEPT !["router"] = "returned"]
  /\ UNCHANGED <<mainpc, counter, fiber, held, ingress, egress>>

(* Wrong on purpose: the fibers stop with the function of their thread.    *)
FiberRunsInFunction == fiber = "running"

(* A thread goes on with its fibers after its function has returned: its   *)
(* scheduler is destroyed only when they have ended.                       *)
FiberRuns ==
  \/ fiber = "running"
  \/ fiber = "waiting" /\ threadpc["router"] = "returned"

Pops == counter["router"] < MessageLength /\ held = << >>
Pushes == held # << >>

RouterPop ==
  /\ FiberRuns /\ Pops
  /\ In!ValuePop(Head(ingress))
  /\ held' = <<Head(ingress)>>
  /\ UNCHANGED <<mainpc, threadpc, counter, f, fiber, egress>>

(* Wrong on purpose: a packet for which there is no room is dropped.       *)
RouterPushOrDrop ==
  /\ FiberRuns /\ Pushes
  /\ Out!Push(held[1]) \/ (Out!Full /\ egress' = egress)
  /\ held' = << >>
  /\ counter' = [counter EXCEPT !["router"] = @ + 1]
  /\ UNCHANGED <<mainpc, threadpc, f, fiber, ingress>>

RouterPush ==
  /\ FiberRuns /\ Pushes
  /\ Out!Push(held[1])
  /\ held' = << >>
  /\ counter' = [counter EXCEPT !["router"] = @ + 1]
  /\ UNCHANGED <<mainpc, threadpc, f, fiber, ingress>>

(* Nothing to read or no room to write.                                    *)
RouterWaits ==
  /\ fiber = "running"
  /\ \/ Pops /\ In!Empty
     \/ Pushes /\ Out!Full
  /\ fiber' = "waiting"
  /\ UNCHANGED <<mainpc, threadpc, counter, f, held, ingress, egress>>

RouterEnds ==
  /\ FiberRuns /\ counter["router"] = MessageLength
  /\ fiber' = "ended"
  /\ UNCHANGED <<mainpc, threadpc, counter, f, held, ingress, egress>>

-----------------------------------------------------------------------------
(* The producer and the consumer. *)

(* Wrong on purpose: the producer does not wait for room.                  *)
WriteAnyway ==
  /\ threadpc["producer"] = "run" /\ counter["producer"] < MessageLength
  /\ ingress' = Append(ingress, counter["producer"])
  /\ counter' = [counter EXCEPT !["producer"] = @ + 1]
  /\ UNCHANGED <<mainpc, threadpc, f, fiber, held, egress>>

Write ==
  /\ threadpc["producer"] = "run" /\ counter["producer"] < MessageLength
  /\ In!Push(counter["producer"])
  /\ counter' = [counter EXCEPT !["producer"] = @ + 1]
  /\ UNCHANGED <<mainpc, threadpc, f, fiber, held, egress>>

Read ==
  /\ threadpc["consumer"] = "run" /\ counter["consumer"] < MessageLength
  /\ Out!ValuePop(Head(egress))
  /\ counter' = [counter EXCEPT !["consumer"] = @ + 1]
  /\ UNCHANGED <<mainpc, threadpc, f, fiber, held, ingress>>

(* Wrong on purpose: the loop of a thread ends one packet too early.       *)
ThreadReturnsEarly(t) ==
  /\ threadpc[t] = "run" /\ counter[t] >= MessageLength - 1
  /\ threadpc' = [threadpc EXCEPT ![t] = "returned"]
  /\ UNCHANGED <<mainpc, counter, f, fiber, held, ingress, egress>>

ThreadReturns(t) ==
  /\ threadpc[t] = "run" /\ counter[t] = MessageLength
  /\ threadpc' = [threadpc EXCEPT ![t] = "returned"]
  /\ UNCHANGED <<mainpc, counter, f, fiber, held, ingress, egress>>

-----------------------------------------------------------------------------
AsyncInit ==
  /\ mainpc = "router"
  /\ threadpc = [t \in Threads |-> "unborn"]
  /\ counter = [t \in Threads |-> 0]
  /\ f = FALSE /\ fiber = "none" /\ held = << >>
  /\ ingress = << >> /\ egress = << >>

(* main() has returned, or the program has been ended.                     *)
AsyncEnded == mainpc \in {"end", "terminated"} /\ UNCHANGED asyncVars

AsyncMainStep ==
  \/ ConstructRouter \/ LaunchProducer \/ LaunchConsumer
  \/ GetProducer \/ GetConsumer \/ JoinFiber \/ GetRouter

(* The function of the thread of the router and its fiber share a thread.  *)
RouterStep ==
  \/ LaunchFiber \/ AssignFiber
  \/ RouterPop \/ RouterPush \/ RouterWaits \/ RouterEnds

ClientStep(t) ==
  \/ t = "producer" /\ Write
  \/ t = "consumer" /\ Read
  \/ ThreadReturns(t)

AsyncNext ==
  \/ mainpc # "terminated" /\ (AsyncMainStep \/ RouterStep)
  \/ mainpc # "terminated" /\ \E t \in Clients : ClientStep(t)
  \/ AsyncEnded

AsyncSpec == AsyncInit /\ [][AsyncNext]_asyncVars

(* Every thread is scheduled by the operating system.                      *)
AsyncFairSpec ==
  /\ AsyncSpec
  /\ WF_asyncVars(AsyncMainStep)
  /\ WF_asyncVars(RouterStep)
  /\ \A t \in Clients : WF_asyncVars(ClientStep(t))

-----------------------------------------------------------------------------
(* The destructor waits for the shutdown of the fiber "to avoid calling    *)
(* std::terminate on destruction" (l. 86), so that must not be called.     *)
NeverTerminates == mainpc # "terminated"

(* The types of the variables; the channels never hold more than they can. *)
AsyncTypeOK ==
  /\ mainpc \in {"router", "producer", "consumer", "get producer",
                 "get consumer", "join", "get router", "end", "terminated"}
  /\ threadpc \in [Threads -> {"unborn", "run", "assign", "returned"}]
  /\ counter \in [Threads -> 0 .. MessageLength]
  /\ f \in BOOLEAN
  /\ fiber \in {"none", "running", "waiting", "ended"}
  /\ held \in Seq(Nat) /\ Len(held) <= 1
  /\ ingress \in Seq(Nat) /\ Len(ingress) <= Capacity - 1
  /\ egress \in Seq(Nat) /\ Len(egress) <= Capacity - 1

(* The consumer reads the numbers in the order the producer counts them:   *)
(* the error message of its loop is never printed.                         *)
ReadsInOrder == egress # << >> => Head(egress) = counter["consumer"]

(* When the destructor has joined the fiber no packet is left in the       *)
(* router, and when it is done no thread and no fiber uses the router.     *)
ShutDown ==
  /\ mainpc \in {"get router", "end"} =>
       ingress = << >> /\ held = << >> /\ egress = << >>
  /\ mainpc = "end" =>
       fiber = "ended" /\ \A t \in Threads : threadpc[t] = "returned"

(* What main(), a client, the function of the thread of the router and the *)
(* router fiber wait for, or that they have nothing to do.                 *)
MainWaits ==
  \/ mainpc = "get producer" /\ threadpc["producer"] # "returned"
  \/ mainpc = "get consumer" /\ threadpc["consumer"] # "returned"
  \/ mainpc = "join" /\ f /\ fiber # "ended"
  \/ mainpc = "get router" /\ threadpc["router"] # "returned"

ClientWaits(t) ==
  \/ threadpc[t] \in {"unborn", "returned"}
  \/ t = "producer" /\ counter[t] < MessageLength /\ In!Full
  \/ t = "consumer" /\ counter[t] < MessageLength /\ Out!Empty

RouterThreadWaits ==
  \/ threadpc["router"] \in {"unborn", "returned"}
  \/ threadpc["router"] = "assign" /\ fiber = "running"

FiberWaits ==
  \/ fiber \in {"none", "ended"}
  \/ /\ fiber = "waiting"
     /\ \/ threadpc["router"] # "returned"
        \/ Pops /\ In!Empty
        \/ Pushes /\ Out!Full

(* They never wait all at once: whether the router fiber waits inside its  *)
(* own launch or after the function of its thread has returned.            *)
AsyncNoDeadlock ==
  ~ /\ MainWaits /\ RouterThreadWaits /\ FiberWaits
    /\ \A t \in Clients : ClientWaits(t)

(* main() returns or, see NeverTerminates, is ended by its destructor.     *)
MainEnds == <>(mainpc \in {"end", "terminated"})
=============================================================================
