----------------------------- MODULE FiberRouter -----------------------------
(***************************************************************************)
(* Boost/Fiber/fibers_in_threads.cpp: a router fiber moves packets from    *)
(* its ingress to its egress channel, two producer fibers write to it and  *)
(* two consumer fibers read from it. Three threads, one for the router,    *)
(* one for the producers and one for the consumers, start the fibers, and  *)
(* share them by work stealing.                                            *)
(*                                                                         *)
(* The work-stealing algorithm here is the one of Boost. Which thread runs *)
(* which fiber is left open: a fiber that has been started may take its    *)
(* next step whenever it is not waiting.                                   *)
(***************************************************************************)
EXTENDS Integers, Sequences

CONSTANTS
  Capacity,       \* capacity
  MessageLength   \* message_length

ASSUME RouterAssumption ==
  /\ Capacity \in Nat /\ Capacity >= 2
  /\ MessageLength \in Nat \ {0}

Threads == {"router", "producer", "consumer"}

Ids == {0, 1}                      \* the arguments of prod and cons
Router == <<"router", 0>>
Producer(id) == <<"producer", id>>
Consumer(id) == <<"consumer", id>>

(* A packet carries the number of its producer and its own.                *)
Packets == Ids \X Nat

(* The fibers each thread launches and joins.                              *)
Producers == {Producer(id) : id \in Ids}
Consumers == {Consumer(id) : id \in Ids}
Fibers == {Router} \cup Producers \cup Consumers
FibersOf(t) == {f \in Fibers : f[1] = t}

VARIABLES
  mainpc,    \* what main() is doing
  console,   \* the logger has been created
  pc,        \* where each thread is
  fiber,     \* the state of each fiber
  i,         \* the loop counter of each fiber
  v,         \* the packet the router fiber holds, if any
  ingress, egress

mainVars == <<mainpc, console>>
dataVars == <<v, ingress, egress>>
vars == <<mainVars, pc, fiber, i, dataVars>>

In == INSTANCE BufferedChannel WITH capacity <- Capacity, channel <- ingress
Out == INSTANCE BufferedChannel WITH capacity <- Capacity, channel <- egress

-----------------------------------------------------------------------------
(* main() *)

(* The constructor of the router starts the thread of the router.          *)
ConstructRouter ==
  /\ mainpc = "router"
  /\ mainpc' = "console"
  /\ pc' = [pc EXCEPT !["router"] = "start"]
  /\ UNCHANGED <<console, fiber, i, dataVars>>

CreateConsole ==
  /\ mainpc = "console"
  /\ mainpc' = "producer"
  /\ console' = TRUE
  /\ UNCHANGED <<pc, fiber, i, dataVars>>

LaunchProducer ==
  /\ mainpc = "producer"
  /\ mainpc' = "consumer"
  /\ pc' = [pc EXCEPT !["producer"] = "start"]
  /\ UNCHANGED <<console, fiber, i, dataVars>>

LaunchConsumer ==
  /\ mainpc = "consumer"
  /\ mainpc' = "get producer"
  /\ pc' = [pc EXCEPT !["consumer"] = "start"]
  /\ UNCHANGED <<console, fiber, i, dataVars>>

(* get() of the future of thread t.                                        *)
Get(t, next) ==
  /\ pc[t] = "returned"
  /\ mainpc' = next
  /\ UNCHANGED <<console, pc, fiber, i, dataVars>>

GetProducer == mainpc = "get producer" /\ Get("producer", "get consumer")
GetConsumer == mainpc = "get consumer" /\ Get("consumer", "destroy")

(* ~router() *)
DestroyRouter == mainpc = "destroy" /\ Get("router", "end")

-----------------------------------------------------------------------------
(* The threads. *)

(* Wrong on purpose: no starting block.                                    *)
NoStartingBlock(t) ==
  /\ pc[t] = "start"
  /\ pc' = [pc EXCEPT ![t] = "launch"]
  /\ UNCHANGED <<mainVars, fiber, i, dataVars>>

(* starting_block.wait()                                                   *)
StartingBlock(t) ==
  /\ pc[t] = "start"
  /\ \A u \in Threads : pc[u] # "unborn"
  /\ pc' = [pc EXCEPT ![t] = "launch"]
  /\ UNCHANGED <<mainVars, fiber, i, dataVars>>

(* The constructors of the fibers of t, one after the other. A fiber may   *)
(* run from now on, with launch::dispatch and with launch::post.           *)
LaunchFiber(t) ==
  /\ pc[t] = "launch"
  /\ \E f \in FibersOf(t) :
       /\ fiber[f] = "none"
       /\ \A g \in FibersOf(t) : g[2] < f[2] => fiber[g] # "none"
       /\ fiber' = [fiber EXCEPT ![f] = "started"]
       /\ pc' = [pc EXCEPT ![t] = IF \A g \in FibersOf(t) : g[2] <= f[2]
                                  THEN "join" ELSE "launch"]
  /\ UNCHANGED <<mainVars, i, dataVars>>

(* Wrong on purpose: only the first fiber is joined.                       *)
JoinFirst(t) ==
  /\ pc[t] = "join"
  /\ \A f \in FibersOf(t) : f[2] = 0 => fiber[f] = "ended"
  /\ pc' = [pc EXCEPT ![t] = "finish"]
  /\ UNCHANGED <<mainVars, fiber, i, dataVars>>

(* join() of the fibers of t: the order of the joins leaves no trace.      *)
JoinFibers(t) ==
  /\ pc[t] = "join"
  /\ \A f \in FibersOf(t) : fiber[f] = "ended"
  /\ pc' = [pc EXCEPT ![t] = "finish"]
  /\ UNCHANGED <<mainVars, fiber, i, dataVars>>

(* finish_line.wait(), after which the thread function returns.            *)
FinishLine(t) ==
  /\ pc[t] = "finish"
  /\ \A u \in Threads : pc[u] \in {"finish", "returned"}
  /\ pc' = [pc EXCEPT ![t] = "returned"]
  /\ UNCHANGED <<mainVars, fiber, i, dataVars>>

-----------------------------------------------------------------------------
(* The fibers. *)

(* Wrong on purpose: the router forwards as many packets as one producer   *)
(* sends.                                                                  *)
RouterLimitOne(f) == MessageLength

(* Where the loop of a fiber ends.                                         *)
Limit(f) == IF f = Router THEN MessageLength * 2 ELSE MessageLength

Runs(f) == fiber[f] = "started"

(* Wrong on purpose: a write does not wait for room in the channel.        *)
WriteAnyway(id) ==
  LET f == Producer(id) IN
  /\ Runs(f) /\ i[f] < Limit(f)
  /\ ingress' = Append(ingress, <<id, i[f]>>)
  /\ i' = [i EXCEPT ![f] = @ + 1]
  /\ UNCHANGED <<mainVars, pc, fiber, v, egress>>

(* router::write()                                                         *)
Write(id) ==
  LET f == Producer(id) IN
  /\ Runs(f) /\ i[f] < Limit(f)
  /\ In!Push(<<id, i[f]>>)
  /\ i' = [i EXCEPT ![f] = @ + 1]
  /\ UNCHANGED <<mainVars, pc, fiber, v, egress>>

RouterPop ==
  /\ Runs(Router) /\ i[Router] < Limit(Router) /\ v = << >>
  /\ In!ValuePop(Head(ingress))
  /\ v' = <<Head(ingress)>>
  /\ UNCHANGED <<mainVars, pc, fiber, i, egress>>

(* Wrong on purpose: the router does not wait on a full egress channel.    *)
RouterPushOrDrop ==
  /\ Runs(Router) /\ v # << >>
  /\ egress' = IF Out!Full THEN egress ELSE egress \o v
  /\ v' = << >>
  /\ i' = [i EXCEPT ![Router] = @ + 1]
  /\ UNCHANGED <<mainVars, pc, fiber, ingress>>

RouterPush ==
  /\ Runs(Router) /\ v # << >>
  /\ Out!Push(v[1])
  /\ v' = << >>
  /\ i' = [i EXCEPT ![Router] = @ + 1]
  /\ UNCHANGED <<mainVars, pc, fiber, ingress>>

(* router::read()                                                          *)
Read(id) ==
  LET f == Consumer(id) IN
  /\ Runs(f) /\ i[f] < Limit(f)
  /\ Out!ValuePop(Head(egress))
  /\ i' = [i EXCEPT ![f] = @ + 1]
  /\ UNCHANGED <<mainVars, pc, fiber, v, ingress>>

FiberEnds(f) ==
  /\ Runs(f) /\ i[f] >= Limit(f)
  /\ fiber' = [fiber EXCEPT ![f] = "ended"]
  /\ UNCHANGED <<mainVars, pc, i, dataVars>>

-----------------------------------------------------------------------------
Init ==
  /\ mainpc = "router" /\ console = FALSE
  /\ pc = [t \in Threads |-> "unborn"]
  /\ fiber = [f \in Fibers |-> "none"]
  /\ i = [f \in Fibers |-> IF f \in Consumers THEN f[2] ELSE 0]
  /\ v = << >> /\ ingress = << >> /\ egress = << >>

MainStep ==
  \/ ConstructRouter \/ CreateConsole \/ LaunchProducer \/ LaunchConsumer
  \/ GetProducer \/ GetConsumer \/ DestroyRouter

ThreadStep(t) ==
  \/ StartingBlock(t) \/ LaunchFiber(t) \/ JoinFibers(t) \/ FinishLine(t)

FiberStep(f) ==
  \/ \E id \in Ids : f = Producer(id) /\ Write(id)
  \/ \E id \in Ids : f = Consumer(id) /\ Read(id)
  \/ f = Router /\ (RouterPop \/ RouterPush)
  \/ FiberEnds(f)

(* main() has returned. *)
Ended == mainpc = "end" /\ UNCHANGED vars

Next ==
  \/ MainStep
  \/ \E t \in Threads : ThreadStep(t)
  \/ \E f \in Fibers : FiberStep(f)
  \/ Ended

Spec == Init /\ [][Next]_vars

(* Every thread is scheduled by the operating system and, as no thread     *)
(* ends before the fibers do, every fiber that can go on by some thread.   *)
FairSpec ==
  /\ Spec
  /\ WF_vars(MainStep)
  /\ \A t \in Threads : WF_vars(ThreadStep(t))
  /\ \A f \in Fibers : WF_vars(FiberStep(f))

-----------------------------------------------------------------------------
(* The types of the variables; the channels never hold more than they can. *)
RouterTypeOK ==
  /\ mainpc \in {"router", "console", "producer", "consumer", "get producer",
                 "get consumer", "destroy", "end"}
  /\ console \in BOOLEAN
  /\ pc \in [Threads -> {"unborn", "start", "launch", "join", "finish",
                         "returned"}]
  /\ fiber \in [Fibers -> {"none", "started", "ended"}]
  /\ i \in [Fibers -> Nat] /\ \A f \in Fibers : i[f] <= Limit(f)
  /\ v \in Seq(Packets) /\ Len(v) <= 1
  /\ ingress \in Seq(Packets) /\ Len(ingress) <= Capacity - 1
  /\ egress \in Seq(Packets) /\ Len(egress) <= Capacity - 1

(* No thread ends before all the fibers have finished (the assumption in   *)
(* the header of the file and the comment of finish_line), and main()      *)
(* destroys the router after them.                                         *)
FinishAfterFibers ==
  (mainpc = "end" \/ \E t \in Threads : pc[t] = "returned")
    => \A f \in Fibers : fiber[f] = "ended"

(* A thread finishes only after it has joined its fibers...                *)
JoinedFirst ==
  \A t \in Threads : pc[t] \in {"finish", "returned"} =>
    \A f \in FibersOf(t) : fiber[f] = "ended"

(* ... all threads start together, and finish together...                  *)
StartTogether ==
  \A t \in Threads : pc[t] \notin {"unborn", "start"} =>
    \A u \in Threads : pc[u] # "unborn"

FinishTogether ==
  \A t \in Threads : pc[t] = "returned" =>
    \A u \in Threads : pc[u] \in {"finish", "returned"}

(* ... and main() starts each of them once.                                *)
LaunchedOnce ==
  /\ mainpc = "router" => pc["router"] = "unborn"
  /\ mainpc \in {"router", "console", "producer"} => pc["producer"] = "unborn"
  /\ mainpc \in {"router", "console", "producer", "consumer"} =>
       pc["consumer"] = "unborn"

(* The order that starting_block, the joins, finish_line and main() impose *)
(* on threads and fibers, on which FinishAfterFibers and LogsToConsole     *)
(* rest; and a router fiber that holds a packet still has it to count.     *)
RouterInv ==
  /\ v # << >> => i[Router] < Limit(Router)
  /\ LaunchedOnce /\ JoinedFirst /\ StartTogether /\ FinishTogether
  /\ mainpc = "end" => pc["router"] = "returned"
  /\ \A f \in Fibers : fiber[f] # "none" => pc[f[1]] \notin {"unborn", "start"}
  /\ mainpc \notin {"router", "console"} => console

(* Nothing is logged before main() has created the logger, although the    *)
(* thread of the router is started before that.                            *)
LogsToConsole ==
  (\/ \E f \in Fibers : fiber[f] # "none"
   \/ \E t \in Threads : pc[t] \notin {"unborn", "start"}) => console

(* What main(), a thread and a fiber wait for, or that they have nothing   *)
(* to do.                                                                  *)
MainWaits ==
  \/ mainpc = "get producer" /\ pc["producer"] # "returned"
  \/ mainpc = "get consumer" /\ pc["consumer"] # "returned"
  \/ mainpc = "destroy" /\ pc["router"] # "returned"

ThreadWaits(t) ==
  \/ pc[t] \in {"unborn", "returned"}
  \/ pc[t] = "start" /\ \E u \in Threads : pc[u] = "unborn"
  \/ pc[t] = "join" /\ \E f \in FibersOf(t) : fiber[f] # "ended"
  \/ pc[t] = "finish" /\ \E u \in Threads : pc[u] \notin {"finish", "returned"}

FiberWaits(f) ==
  \/ ~Runs(f)
  \/ f \in Producers /\ i[f] < Limit(f) /\ In!Full
  \/ f \in Consumers /\ i[f] < Limit(f) /\ Out!Empty
  \/ f = Router /\ i[f] < Limit(f) /\ v = << >> /\ In!Empty
  \/ f = Router /\ v # << >> /\ Out!Full

(* They never wait all at once: not with a thread per side of the router,  *)
(* barriers around the fibers, and messages longer than the channels.      *)
NoDeadlock ==
  ~ /\ MainWaits
    /\ \A t \in Threads : ThreadWaits(t)
    /\ \A f \in Fibers : FiberWaits(f)

(* main() returns: no producer waits for ever on a full channel, no        *)
(* consumer on an empty one, nobody at a barrier.                          *)
MainReturns == <>(mainpc = "end")

(* The packets flow through ingress, the router fiber and egress as        *)
(* through one queue. The second consumer reads one packet less, which     *)
(* stays in egress.                                                        *)
PF == INSTANCE PacketFlow
        WITH Producers <- Ids,
             Count <- MessageLength,
             Reads <- 2 * MessageLength - 1,
             Bound <- 2 * Capacity - 1,
             sent <- [id \in Ids |-> i[Producer(id)]],
             underway <- egress \o v \o ingress,
             read <- i[Consumer(0)] + i[Consumer(1)] - 1

(* No packet is lost, invented or overtaken...                             *)
FlowSafe == PF!Spec

(* ... and every packet that somebody reads arrives.                       *)
ImplementsPacketFlow == PF!FairSpec
=============================================================================
