------------------------- MODULE FiberRouterProofs -------------------------
(***************************************************************************)
(* Proofs about the router of fibers_in_threads.cpp for every capacity of  *)
(* its channels and every number of messages.                              *)
(***************************************************************************)
EXTENDS FiberRouter, SequenceTheorems, TLAPS

-----------------------------------------------------------------------------
(* Facts about the fibers. *)

(* Each fiber is the router fiber, a producer or a consumer.               *)
LEMMA FiberKinds ==
  /\ Router \in Fibers /\ Producers \subseteq Fibers /\ Consumers \subseteq Fibers
  /\ \A f \in Fibers : f[1] \in Threads
  /\ \A id \in Ids : /\ Producer(id) \in Producers /\ Consumer(id) \in Consumers
                     /\ Producer(id)[1] = "producer" /\ Consumer(id)[1] = "consumer"
                     /\ Producer(id) # Router /\ Consumer(id) # Router
  /\ \A id, jd \in Ids : Producer(id) # Consumer(jd)
  /\ \A id, jd \in Ids : id # jd => /\ Producer(id) # Producer(jd)
                                    /\ Consumer(id) # Consumer(jd)
BY DEF Fibers, Producers, Consumers, Router, Producer, Consumer, Threads

LEMMA ThreadNames == "router" \in Threads /\ "producer" \in Threads /\ "consumer" \in Threads
BY DEF Threads

LEMMA LimitType == \A f \in Fibers : Limit(f) \in Nat /\ Limit(f) >= MessageLength
BY RouterAssumption DEF Limit

-----------------------------------------------------------------------------
(* Every variable has its type and no channel holds more than its room.    *)

(* The router fiber still has a packet to count while it holds one.        *)
Holds == v # << >> => i[Router] < Limit(Router)

ControlTypeOK ==
  /\ mainpc \in {"router", "console", "producer", "consumer", "get producer",
                 "get consumer", "destroy", "end"}
  /\ console \in BOOLEAN
  /\ pc \in [Threads -> {"unborn", "start", "launch", "join", "finish",
                         "returned"}]
  /\ fiber \in [Fibers -> {"none", "started", "ended"}]

CountTypeOK == i \in [Fibers -> Nat] /\ \A f \in Fibers : i[f] <= Limit(f)

ChannelTypeOK ==
  /\ v \in Seq(Packets) /\ Len(v) <= 1
  /\ ingress \in Seq(Packets) /\ Len(ingress) <= Capacity - 1
  /\ egress \in Seq(Packets) /\ Len(egress) <= Capacity - 1

LEMMA TypeParts == RouterTypeOK <=> ControlTypeOK /\ CountTypeOK /\ ChannelTypeOK
BY DEF RouterTypeOK, ControlTypeOK, CountTypeOK, ChannelTypeOK

(* A fiber below its limit counts one more.                                *)
LEMMA CountUp ==
  ASSUME CountTypeOK, NEW f \in Fibers, i[f] < Limit(f),
         i' = [i EXCEPT ![f] = @ + 1]
  PROVE  CountTypeOK' /\ \A g \in Fibers : g # f => i'[g] = i[g]
BY LimitType DEF CountTypeOK

LEMMA ControlStep ==
  ASSUME ControlTypeOK, [Next]_vars
  PROVE  ControlTypeOK'
<1>1. CASE MainStep
  BY <1>1 DEF MainStep, ConstructRouter, CreateConsole, LaunchProducer,
     LaunchConsumer, GetProducer, GetConsumer, DestroyRouter, Get,
     ControlTypeOK, Threads
<1>2. ASSUME NEW t \in Threads, ThreadStep(t)
      PROVE  ControlTypeOK'
  BY <1>2 DEF ThreadStep, StartingBlock, LaunchFiber, JoinFibers, FinishLine,
     ControlTypeOK, mainVars
<1>3. ASSUME NEW f \in Fibers, FiberStep(f)
      PROVE  ControlTypeOK'
  BY <1>3 DEF FiberStep, Write, Read, RouterPop, RouterPush, FiberEnds,
     ControlTypeOK, mainVars
<1>4. CASE UNCHANGED vars
  BY <1>4 DEF ControlTypeOK, vars, mainVars
<1> QED
  BY <1>1, <1>2, <1>3, <1>4 DEF Next, Ended

LEMMA DataStep ==
  ASSUME CountTypeOK, ChannelTypeOK, Holds, [Next]_vars
  PROVE  CountTypeOK' /\ ChannelTypeOK' /\ Holds'
<1> USE RouterAssumption, FiberKinds
<1>1. CASE UNCHANGED <<i, dataVars>>
  BY <1>1 DEF CountTypeOK, ChannelTypeOK, Holds, dataVars
<1>2. ASSUME NEW id \in Ids, Write(id)
      PROVE  CountTypeOK' /\ ChannelTypeOK' /\ Holds'
  <2>1. CountTypeOK' /\ \A g \in Fibers : g # Producer(id) => i'[g] = i[g]
    BY <1>2, CountUp DEF Write
  <2>2. <<id, i[Producer(id)]>> \in Packets
    BY DEF CountTypeOK, Packets
  <2>3. ChannelTypeOK'
    BY <1>2, <2>2 DEF Write, ChannelTypeOK, In!Push, In!Full, In!Room
  <2>4. Holds'
    BY <1>2, <2>1 DEF Write, Holds
  <2> QED BY <2>1, <2>3, <2>4
<1>3. ASSUME NEW id \in Ids, Read(id)
      PROVE  CountTypeOK' /\ ChannelTypeOK' /\ Holds'
  <2>1. CountTypeOK' /\ \A g \in Fibers : g # Consumer(id) => i'[g] = i[g]
    BY <1>3, CountUp DEF Read
  <2>2. ChannelTypeOK'
    BY <1>3 DEF Read, ChannelTypeOK, Out!ValuePop, Out!Empty
  <2>3. Holds'
    BY <1>3, <2>1 DEF Read, Holds
  <2> QED BY <2>1, <2>2, <2>3
<1>4. CASE RouterPop
  <2>1. ChannelTypeOK'
    BY <1>4 DEF RouterPop, ChannelTypeOK, In!ValuePop, In!Empty
  <2> QED
    BY <1>4, <2>1 DEF RouterPop, CountTypeOK, Holds
<1>5. CASE RouterPush
  <2>1. CountTypeOK'
    BY <1>5, CountUp DEF RouterPush, Holds
  <2>2. ChannelTypeOK'
    BY <1>5 DEF RouterPush, ChannelTypeOK, Out!Push, Out!Full, Out!Room
  <2> QED
    BY <1>5, <2>1, <2>2 DEF RouterPush, Holds
<1> QED
  BY <1>1, <1>2, <1>3, <1>4, <1>5
     DEF Next, Ended, vars, MainStep, ConstructRouter, CreateConsole,
         LaunchProducer, LaunchConsumer, GetProducer, GetConsumer,
         DestroyRouter, Get, ThreadStep, StartingBlock, LaunchFiber,
         JoinFibers, FinishLine, FiberStep, FiberEnds, dataVars

(* The types of the variables, whatever the capacity and the number of     *)
(* messages: the channels are never overfull, and no fiber counts beyond   *)
(* its loop.                                                               *)
THEOREM RouterTypeCorrect == Spec => [](RouterTypeOK /\ Holds)
<1>1. Init => RouterTypeOK /\ Holds
  <2> SUFFICES ASSUME Init
               PROVE  RouterTypeOK /\ Holds
    OBVIOUS
  <2>1. ControlTypeOK
    BY DEF Init, ControlTypeOK
  <2>2. CountTypeOK
    <3>1. \A f \in Consumers : f[2] \in Nat /\ f[2] <= 1
      BY DEF Consumers, Consumer, Ids
    <3>2. \A f \in Fibers : i[f] \in Nat /\ i[f] <= 1
      BY <3>1 DEF Init
    <3>3. \A f \in Fibers : Limit(f) \in Nat /\ Limit(f) >= 1
      BY LimitType, RouterAssumption
    <3>4. i \in [Fibers -> Nat]
      BY <3>2 DEF Init
    <3> QED BY <3>2, <3>3, <3>4 DEF CountTypeOK
  <2>3. ChannelTypeOK /\ Holds
    BY RouterAssumption DEF Init, ChannelTypeOK, Holds
  <2> QED BY <2>1, <2>2, <2>3, TypeParts
<1>2. RouterTypeOK /\ Holds /\ [Next]_vars => (RouterTypeOK /\ Holds)'
  <2> SUFFICES ASSUME RouterTypeOK, Holds, [Next]_vars
               PROVE  RouterTypeOK' /\ Holds'
    OBVIOUS
  <2>1. ControlTypeOK' /\ CountTypeOK' /\ ChannelTypeOK' /\ Holds'
    BY TypeParts, ControlStep, DataStep
  <2> QED
    BY <2>1 DEF RouterTypeOK, ControlTypeOK, CountTypeOK, ChannelTypeOK
<1> QED BY <1>1, <1>2, PTL DEF Spec

-----------------------------------------------------------------------------
(* The threads and the fibers start and finish in the order the barriers   *)
(* and the joins impose.                                                   *)

(* The part of RouterInv that is about the order.                          *)
OrderInv ==
  /\ LaunchedOnce /\ JoinedFirst /\ StartTogether /\ FinishTogether
  /\ mainpc = "end" => pc["router"] = "returned"
  /\ \A f \in Fibers : fiber[f] # "none" => pc[f[1]] \notin {"unborn", "start"}
  /\ mainpc \notin {"router", "console"} => console

LEMMA OrderMain ==
  ASSUME ControlTypeOK, OrderInv, MainStep
  PROVE  OrderInv'
<1> USE FiberKinds DEF OrderInv, LaunchedOnce, JoinedFirst, StartTogether, FinishTogether, FibersOf
<1>1. CASE ConstructRouter
  BY <1>1 DEF ConstructRouter, ControlTypeOK, Threads
<1>2. CASE CreateConsole
  BY <1>2 DEF CreateConsole
<1>3. CASE LaunchProducer
  BY <1>3 DEF LaunchProducer, ControlTypeOK, Threads
<1>4. CASE LaunchConsumer
  BY <1>4 DEF LaunchConsumer, ControlTypeOK, Threads
<1>5. CASE GetProducer \/ GetConsumer \/ DestroyRouter
  BY <1>5 DEF GetProducer, GetConsumer, DestroyRouter, Get
<1> QED BY <1>1, <1>2, <1>3, <1>4, <1>5 DEF MainStep

LEMMA OrderThread ==
  ASSUME ControlTypeOK, OrderInv, NEW t \in Threads, ThreadStep(t)
  PROVE  OrderInv'
<1> USE FiberKinds, ThreadNames DEF OrderInv, LaunchedOnce, JoinedFirst, StartTogether, FinishTogether, FibersOf
<1>1. CASE StartingBlock(t)
  BY <1>1 DEF StartingBlock, ControlTypeOK, mainVars
<1>2. CASE LaunchFiber(t)
  <2>1. PICK f \in Fibers : /\ f[1] = t /\ fiber[f] = "none"
                            /\ fiber' = [fiber EXCEPT ![f] = "started"]
    BY <1>2 DEF LaunchFiber
  <2>2. /\ pc[t] = "launch" /\ UNCHANGED <<mainpc, console>>
        /\ \E w \in {"join", "launch"} : pc' = [pc EXCEPT ![t] = w]
    BY <1>2 DEF LaunchFiber, mainVars
  <2>3. /\ pc'[t] \in {"join", "launch"}
        /\ \A u \in Threads : u # t => pc'[u] = pc[u]
    BY <2>2 DEF ControlTypeOK
  <2>4. \A g \in Fibers : g[1] # t => fiber'[g] = fiber[g]
    <3> SUFFICES ASSUME NEW g \in Fibers, g[1] # t
                 PROVE  fiber'[g] = fiber[g]
      OBVIOUS
    <3>1. g # f
      BY <2>1
    <3> QED BY ONLY <3>1, <2>1, ControlTypeOK DEF ControlTypeOK
  <2>5. JoinedFirst'
    BY <2>3, <2>4
  <2>6. LaunchedOnce' /\ StartTogether' /\ FinishTogether'
    BY <2>2, <2>3
  <2>7. \A g \in Fibers : fiber'[g] # "none" => pc'[g[1]] \notin {"unborn", "start"}
    BY <2>3, <2>4
  <2>8. mainpc' = "end" => pc'["router"] = "returned"
    BY <2>2, <2>3
  <2> QED BY <2>2, <2>5, <2>6, <2>7, <2>8
<1>3. CASE JoinFibers(t)
  BY <1>3 DEF JoinFibers, ControlTypeOK, mainVars
<1>4. CASE FinishLine(t)
  BY <1>4 DEF FinishLine, ControlTypeOK, mainVars
<1> QED BY <1>1, <1>2, <1>3, <1>4 DEF ThreadStep

(* A fiber that ends was started before.                                   *)
LEMMA OrderFiber ==
  ASSUME ControlTypeOK, OrderInv, NEW f \in Fibers, FiberStep(f)
  PROVE  OrderInv'
<1> USE DEF OrderInv, LaunchedOnce, JoinedFirst, StartTogether, FinishTogether, FibersOf
<1>1. CASE FiberEnds(f)
  BY <1>1 DEF FiberEnds, Runs, ControlTypeOK, mainVars
<1>2. CASE UNCHANGED <<mainVars, pc, fiber>>
  BY <1>2 DEF mainVars
<1> QED
  BY <1>1, <1>2 DEF FiberStep, Write, Read, RouterPop, RouterPush

(* The order holds in every reachable state, and with it RouterInv.        *)
THEOREM RouterInvariant == Spec => []RouterInv
<1>1. Init => OrderInv
  BY FiberKinds DEF Init, OrderInv, LaunchedOnce, JoinedFirst, StartTogether, FinishTogether,
                    FibersOf, Threads
<1>2. RouterTypeOK /\ OrderInv /\ [Next]_vars => OrderInv'
  <2>1. ASSUME RouterTypeOK, OrderInv, UNCHANGED vars
        PROVE  OrderInv'
    BY <2>1 DEF OrderInv, LaunchedOnce, JoinedFirst, StartTogether, FinishTogether, vars, mainVars
  <2> QED
    BY <2>1, TypeParts, OrderMain, OrderThread, OrderFiber DEF Next, Ended
<1>3. Holds /\ OrderInv => RouterInv
  BY DEF Holds, OrderInv, RouterInv
<1> QED BY <1>1, <1>2, <1>3, RouterTypeCorrect, PTL DEF Spec

(* No thread of the program ends, and main() does not return, before all   *)
(* the fibers have ended: what the header of the file requires to be free  *)
(* of deadlock.                                                            *)
THEOREM FinishCorrect == Spec => []FinishAfterFibers
<1>1. RouterInv => FinishAfterFibers
  <2> SUFFICES ASSUME RouterInv, NEW t \in Threads, pc[t] = "returned",
                      NEW f \in Fibers
               PROVE  fiber[f] = "ended"
    BY DEF RouterInv, FinishAfterFibers, Threads
  <2>1. pc[f[1]] \in {"finish", "returned"}
    BY FiberKinds DEF RouterInv, FinishTogether
  <2> QED BY <2>1, FiberKinds DEF RouterInv, JoinedFirst, FibersOf
<1> QED BY <1>1, RouterInvariant, PTL

(* Nobody logs before the logger exists.                                   *)
THEOREM LogsCorrect == Spec => []LogsToConsole
<1>1. RouterTypeOK /\ RouterInv => LogsToConsole
  <2> SUFFICES ASSUME RouterTypeOK, RouterInv, NEW t \in Threads, pc[t] \notin {"unborn", "start"}
               PROVE  console
    BY FiberKinds DEF RouterInv, LogsToConsole
  <2> QED BY TypeParts DEF RouterInv, StartTogether, LaunchedOnce, Threads, ControlTypeOK
<1> QED BY <1>1, RouterInvariant, RouterTypeCorrect, PTL

-----------------------------------------------------------------------------
(* The packets flow as through one queue. *)

(* What the steps of the program do to the packets under way, seen as one  *)
(* sequence.                                                               *)
LEMMA AppendLast ==
  ASSUME NEW S, NEW s \in Seq(S), NEW t \in Seq(S), NEW e \in S
  PROVE  s \o Append(t, e) = Append(s \o t, e)
<1>1. <<e>> \in Seq(S)
  OBVIOUS
<1>2. s \o t \in Seq(S)
  BY ConcatProperties
<1>3. s \o (t \o <<e>>) = (s \o t) \o <<e>>
  BY <1>1, ConcatAssociative
<1> QED BY <1>2, <1>3, AppendIsConcat

LEMMA HeadThenTail ==
  ASSUME NEW S, NEW s \in Seq(S), s # << >>
  PROVE  <<Head(s)>> \o Tail(s) = s
<1>1. Head(s) \in S /\ Tail(s) \in Seq(S) /\ Len(Tail(s)) = Len(s) - 1
  BY HeadTailProperties
<1>2. \A k \in 1 .. Len(Tail(s)) : Tail(s)[k] = s[k + 1]
  BY HeadTailProperties
<1>3. <<Head(s)>> \in Seq(S) /\ Len(<<Head(s)>>) = 1
  BY <1>1
<1>4. Len(<<Head(s)>> \o Tail(s)) = Len(s) /\ <<Head(s)>> \o Tail(s) \in Seq(S)
  BY <1>1, <1>3, ConcatProperties
<1>5. \A k \in 1 .. Len(s) : (<<Head(s)>> \o Tail(s))[k] = s[k]
  BY <1>1, <1>2, <1>3, ConcatProperties, LenProperties
<1> QED BY <1>4, <1>5, SeqEqual

LEMMA TailFirst ==
  ASSUME NEW S, NEW s \in Seq(S), NEW t \in Seq(S), s # << >>
  PROVE  s \o t # << >> /\ Tail(s \o t) = Tail(s) \o t
<1>1. Tail(s) \in Seq(S) /\ Head(s) \in S /\ <<Head(s)>> \in Seq(S)
  BY HeadTailProperties
<1>2. s \o t = <<Head(s)>> \o (Tail(s) \o t)
  BY <1>1, HeadThenTail, ConcatAssociative
<1>3. Tail(s) \o t \in Seq(S) /\ s \o t \in Seq(S)
  BY <1>1, ConcatProperties
<1>4. s \o t # << >>
  BY ConcatEqualIffEmpty
<1>5. Len(Tail(s \o t)) = Len(Tail(s) \o t) /\ Tail(s \o t) \in Seq(S)
  BY <1>1, <1>3, <1>4, HeadTailProperties, ConcatProperties
<1>6. \A k \in 1 .. Len(Tail(s \o t)) : Tail(s \o t)[k] = (Tail(s) \o t)[k]
  BY <1>1, <1>2, <1>3, <1>4, <1>5, HeadTailProperties, ConcatProperties, LenProperties
<1> QED BY <1>3, <1>4, <1>5, <1>6, SeqEqual

Underway == egress \o v \o ingress

(* How many packets are under way.                                         *)
LEMMA UnderwayType ==
  ASSUME ChannelTypeOK
  PROVE  /\ Underway \in Seq(Packets) /\ egress \o v \in Seq(Packets)
         /\ Len(Underway) = Len(egress) + Len(v) + Len(ingress)
BY ConcatProperties DEF ChannelTypeOK, Underway

LEMMA WriteSends ==
  ASSUME ChannelTypeOK, CountTypeOK, NEW id \in Ids, Write(id)
  PROVE  PF!Send(id)
<1> USE RouterAssumption, FiberKinds
<1>1. <<id, i[Producer(id)]>> \in Packets
  BY DEF CountTypeOK, Packets
<1>2. Len(Underway) < 2 * Capacity - 1
  <2>1. Len(ingress) < Capacity - 1 /\ Len(ingress) \in Nat /\ Len(v) \in Nat
        /\ Len(egress) \in Nat
    BY DEF Write, In!Push, In!Full, In!Room, ChannelTypeOK
  <2> QED BY <2>1, UnderwayType DEF ChannelTypeOK
<1>3. Underway' = Append(Underway, <<id, i[Producer(id)]>>)
  <2>1. /\ ingress' = Append(ingress, <<id, i[Producer(id)]>>)
        /\ egress' = egress /\ v' = v
    BY DEF Write, In!Push
  <2> QED BY <2>1, <1>1, UnderwayType, AppendLast DEF Underway, ChannelTypeOK
<1>4. /\ i[Producer(id)] < MessageLength
      /\ i' = [i EXCEPT ![Producer(id)] = @ + 1]
  BY DEF Write, Limit
<1>5. /\ [p \in Ids |-> i'[Producer(p)]]
           = [[p \in Ids |-> i[Producer(p)]] EXCEPT ![id] = @ + 1]
      /\ \A p \in Ids : i'[Consumer(p)] = i[Consumer(p)]
  BY <1>4 DEF CountTypeOK
<1>6. i'[Consumer(0)] + i'[Consumer(1)] - 1 = i[Consumer(0)] + i[Consumer(1)] - 1
  BY <1>5 DEF Ids
<1> QED BY <1>2, <1>3, <1>4, <1>5, <1>6 DEF PF!Send, Underway

LEMMA ReadReceives ==
  ASSUME ChannelTypeOK, CountTypeOK, NEW id \in Ids, Read(id)
  PROVE  PF!Receive
<1> USE RouterAssumption, FiberKinds
<1>1. Underway # << >> /\ Underway' = Tail(Underway)
  <2>1. /\ egress # << >> /\ egress' = Tail(egress)
        /\ ingress' = ingress /\ v' = v
    BY DEF Read, Out!ValuePop, Out!Empty
  <2>2. egress \o v # << >> /\ Tail(egress \o v) = Tail(egress) \o v
    BY <2>1, TailFirst DEF ChannelTypeOK
  <2>3. /\ (egress \o v) \o ingress # << >>
        /\ Tail((egress \o v) \o ingress) = Tail(egress \o v) \o ingress
    <3>1. ingress \in Seq(Packets) /\ egress \o v \in Seq(Packets)
      BY UnderwayType DEF ChannelTypeOK
    <3> QED BY ONLY <3>1, <2>2, TailFirst
  <2> QED BY <2>1, <2>2, <2>3 DEF Underway
<1>2. /\ i[Consumer(id)] < MessageLength
      /\ i' = [i EXCEPT ![Consumer(id)] = @ + 1]
  BY DEF Read, Limit
<1>3. \A p \in Ids : /\ i[Consumer(p)] \in Nat /\ i[Consumer(p)] <= MessageLength
                     /\ i'[Producer(p)] = i[Producer(p)]
                     /\ i'[Consumer(p)] = IF p = id THEN i[Consumer(p)] + 1
                                                    ELSE i[Consumer(p)]
  BY <1>2 DEF CountTypeOK, Limit
<1>4. /\ i[Consumer(0)] + i[Consumer(1)] - 1 < 2 * MessageLength - 1
      /\ i'[Consumer(0)] + i'[Consumer(1)] - 1 = i[Consumer(0)] + i[Consumer(1)] - 1 + 1
  BY <1>2, <1>3 DEF Ids
<1>5. [p \in Ids |-> i'[Producer(p)]] = [p \in Ids |-> i[Producer(p)]]
  BY <1>3
<1> QED BY <1>1, <1>4, <1>5 DEF PF!Receive, Underway

(* The router fiber moves a packet from one part of the sequence to the    *)
(* next, which leaves the sequence as it is.                               *)
LEMMA RouterMoves ==
  ASSUME ChannelTypeOK, CountTypeOK, RouterPop \/ RouterPush
  PROVE  UNCHANGED PF!flow
<1> USE FiberKinds
<1>1. Underway' = Underway
  <2>1. CASE RouterPop
    <3>1. /\ ingress # << >> /\ v = << >> /\ egress' = egress
          /\ v' = <<Head(ingress)>> /\ ingress' = Tail(ingress)
      BY <2>1 DEF RouterPop, In!ValuePop, In!Empty
    <3>2. v' \in Seq(Packets) /\ ingress' \in Seq(Packets) /\ egress \in Seq(Packets)
      BY <3>1, HeadTailProperties DEF ChannelTypeOK
    <3>3. (egress \o v') \o ingress' = egress \o (v' \o ingress')
      BY <3>2, ConcatAssociative
    <3>4. v' \o ingress' = ingress
      BY <3>1, HeadThenTail DEF ChannelTypeOK
    <3>5. egress \o v = egress
      BY <3>1, <3>2, ConcatEmptySeq
    <3> QED BY <3>1, <3>3, <3>4, <3>5 DEF Underway
  <2>2. CASE RouterPush
    <3>1. /\ v # << >> /\ v' = << >> /\ ingress' = ingress
          /\ egress' = Append(egress, v[1])
      BY <2>2 DEF RouterPush, Out!Push
    <3>2. v[1] \in Packets /\ v = <<v[1]>>
      <4>1. v \in Seq(Packets) /\ Len(v) = 1
        <5>1. v \in Seq(Packets) /\ Len(v) <= 1 /\ v # << >>
          BY <3>1 DEF ChannelTypeOK
        <5>2. Len(v) \in Nat \ {0}
          BY <5>1, EmptySeq
        <5>3. \A n \in Nat \ {0} : n <= 1 => n = 1
          OBVIOUS
        <5> QED BY ONLY <5>1, <5>2, <5>3, Zenon
      <4>2. v[1] \in Packets
        BY <4>1, ElementOfSeq
      <4>3. <<v[1]>> \in Seq(Packets) /\ Len(<<v[1]>>) = 1 /\ <<v[1]>>[1] = v[1]
        BY <4>2
      <4>4. v = <<v[1]>>
        BY <4>1, <4>3, SeqEqual
      <4> QED BY <4>2, <4>4
    <3>3. egress' = egress \o v /\ egress' \in Seq(Packets)
      BY <3>1, <3>2, AppendIsConcat, AppendProperties DEF ChannelTypeOK
    <3>4. egress' \o v' = egress'
      BY <3>1, <3>3, ConcatEmptySeq
    <3> QED BY <3>1, <3>3, <3>4 DEF Underway
  <2> QED BY <2>1, <2>2
<1>2. \A id \in Ids : /\ i'[Producer(id)] = i[Producer(id)]
                      /\ i'[Consumer(id)] = i[Consumer(id)]
  BY DEF RouterPop, RouterPush, CountTypeOK
<1>3. [id \in Ids |-> i'[Producer(id)]] = [id \in Ids |-> i[Producer(id)]]
  BY <1>2
<1>4. i'[Consumer(0)] + i'[Consumer(1)] - 1 = i[Consumer(0)] + i[Consumer(1)] - 1
  BY <1>2 DEF Ids
<1> QED BY <1>1, <1>3, <1>4 DEF PF!flow, Underway

(* Through two channels, a router fiber, two producers and two consumers   *)
(* on three threads no packet is lost, invented or overtaken, and no more  *)
(* than the two channels and the router fiber can hold are under way.      *)
THEOREM RouterRefinesPacketFlow == Spec => FlowSafe
<1>1. Init => PF!Init
  <2> SUFFICES ASSUME Init
               PROVE  PF!Init
    OBVIOUS
  <2>1. \A id \in Ids : i[Producer(id)] = 0 /\ i[Consumer(id)] = id
    BY FiberKinds DEF Init, Producers, Consumers, Producer, Consumer
  <2>2. [id \in Ids |-> i[Producer(id)]] = [id \in Ids |-> 0]
    BY <2>1
  <2>3. i[Consumer(0)] + i[Consumer(1)] - 1 = 0
    BY <2>1 DEF Ids
  <2>4. egress \o v \o ingress = << >>
    BY ConcatEmptySeq DEF Init
  <2> QED BY <2>2, <2>3, <2>4 DEF PF!Init
<1>2. RouterTypeOK /\ [Next]_vars => [PF!Next]_(PF!flow)
  <2> SUFFICES ASSUME RouterTypeOK, [Next]_vars
               PROVE  PF!Next \/ UNCHANGED PF!flow
    BY DEF PF!Next
  <2>1. ControlTypeOK /\ CountTypeOK /\ ChannelTypeOK
    BY TypeParts
  <2>2. ASSUME NEW f \in Fibers, FiberStep(f), ~FiberEnds(f)
        PROVE  PF!Next \/ UNCHANGED PF!flow
    BY <2>1, <2>2, WriteSends, ReadReceives, RouterMoves DEF FiberStep, PF!Next
  <2>3. CASE UNCHANGED <<i, dataVars>>
    BY <2>3 DEF PF!flow, dataVars
  <2> QED
    BY <2>2, <2>3
       DEF Next, Ended, vars, MainStep, ConstructRouter, CreateConsole,
           LaunchProducer, LaunchConsumer, GetProducer, GetConsumer,
           DestroyRouter, Get, ThreadStep, StartingBlock, LaunchFiber,
           JoinFibers, FinishLine, FiberEnds, dataVars
<1> QED BY <1>1, <1>2, RouterTypeCorrect, PTL DEF Spec, FlowSafe, PF!Spec

-----------------------------------------------------------------------------
(* Nobody waits for ever. *)

(* The packets sent are read, in egress, in the router fiber or in         *)
(* ingress.                                                                *)
Entered(r, p, q, h, n) == r = p + q - (h + n)
Left(r, e, c, d) == r = e + c + d - 1
FlowIn ==
  Entered(i[Router], i[Producer(0)], i[Producer(1)], Len(v), Len(ingress))
FlowOut ==
  Left(i[Router], Len(egress), i[Consumer(0)], i[Consumer(1)])
FlowInv == FlowIn /\ FlowOut

(* A fiber ends when it has finished its loop, a thread joins its fibers   *)
(* when it has launched them, main() waits for a thread it has launched.   *)
EndInv ==
  /\ \A f \in Fibers : fiber[f] = "ended" => i[f] = Limit(f)
  /\ \A t \in Threads : pc[t] \in {"join", "finish", "returned"} =>
       \A f \in FibersOf(t) : fiber[f] # "none"
  /\ mainpc \in {"get producer", "get consumer", "destroy"} =>
       \A t \in Threads : pc[t] # "unborn"
  /\ mainpc # "router" => pc["router"] # "unborn"
  /\ mainpc \notin {"router", "console", "producer"} => pc["producer"] # "unborn"

FlowEndInv == FlowInv /\ EndInv

(* The fibers that matter, one by one.                                     *)
LEMMA CountFacts ==
  ASSUME RouterTypeOK
  PROVE  /\ \A id \in Ids : /\ i[Producer(id)] \in Nat /\ i[Consumer(id)] \in Nat
                          /\ i[Producer(id)] <= MessageLength
                          /\ i[Consumer(id)] <= MessageLength
                          /\ Limit(Producer(id)) = MessageLength
                          /\ Limit(Consumer(id)) = MessageLength
         /\ i[Router] \in Nat /\ Limit(Router) = MessageLength * 2
         /\ i[Router] <= MessageLength * 2
         /\ Len(v) \in Nat /\ Len(ingress) \in Nat /\ Len(egress) \in Nat
         /\ v = << >> <=> Len(v) = 0
         /\ v \in Seq(Packets) /\ ingress \in Seq(Packets) /\ egress \in Seq(Packets)
         /\ Len(v) <= 1
<1>1. CountTypeOK /\ ChannelTypeOK
  BY TypeParts
<1>2. /\ Len(v) \in Nat /\ Len(ingress) \in Nat /\ Len(egress) \in Nat
      /\ v = << >> <=> Len(v) = 0
      /\ v \in Seq(Packets) /\ ingress \in Seq(Packets) /\ egress \in Seq(Packets)
      /\ Len(v) <= 1
  BY <1>1, LenProperties, EmptySeq DEF ChannelTypeOK
<1>3. \A id \in Ids : /\ Limit(Producer(id)) = MessageLength
                     /\ Limit(Consumer(id)) = MessageLength
  BY FiberKinds DEF Limit
<1>4. Limit(Router) = MessageLength * 2
  BY DEF Limit
<1>5. \A f \in Fibers : i[f] \in Nat /\ i[f] <= Limit(f)
  BY <1>1 DEF CountTypeOK
<1>6. /\ Router \in Fibers
      /\ \A id \in Ids : Producer(id) \in Fibers /\ Consumer(id) \in Fibers
  BY FiberKinds
<1> QED BY <1>2, <1>3, <1>4, <1>5, <1>6

(* A packet that leaves the egress channel is counted by a consumer.       *)
LEMMA ReadCount ==
  ASSUME NEW r \in Nat, NEW e \in Nat, NEW c \in Nat, NEW d \in Nat
  PROVE  Left(r, e, c, d) =>
           Left(r, e - 1, c + 1, d) /\ Left(r, e - 1, c, d + 1)
BY DEF Left

(* What is left to do when the producers, which have written p and q       *)
(* packets, wait for room or are done, the consumers, at c and d, wait for *)
(* packets or are done, and so does or is the router, at r: nothing. h is  *)
(* what the router holds, n and e what ingress and egress do.              *)
Stuck(p, q, c, d, r, h, n, e) ==
  /\ p = MessageLength \/ n = Capacity - 1
  /\ q = MessageLength \/ n = Capacity - 1
  /\ c = MessageLength \/ e = 0
  /\ d = MessageLength \/ e = 0
  /\ r = MessageLength * 2 \/ (h = 0 /\ n = 0) \/ e = Capacity - 1

LEMMA AllDone ==
  ASSUME NEW p \in 0..MessageLength, NEW q \in 0..MessageLength,
         NEW c \in 0..MessageLength, NEW d \in 0..MessageLength,
         NEW r \in Nat, NEW h \in Nat, NEW n \in Nat, NEW e \in Nat,
         r <= MessageLength * 2,
         Entered(r, p, q, h, n), Left(r, e, c, d), Stuck(p, q, c, d, r, h, n, e)
  PROVE  /\ p = MessageLength /\ q = MessageLength
         /\ c = MessageLength /\ d = MessageLength
         /\ r = MessageLength * 2
<1>1. r = MessageLength * 2
  BY RouterAssumption DEF Entered, Left, Stuck
<1> QED BY <1>1, RouterAssumption DEF Entered, Left, Stuck

(* Every step moves a packet or none.                                      *)
LEMMA FlowStep ==
  ASSUME RouterTypeOK, FlowInv, NEW f \in Fibers, FiberStep(f)
  PROVE  FlowInv'
<1> USE FiberKinds
<1>a. 0 \in Ids /\ 1 \in Ids /\ \A id \in Ids : id = 0 \/ id = 1
  BY DEF Ids
<1>b. i \in [Fibers -> Nat]
  BY DEF RouterTypeOK
<1>c. /\ i[Producer(0)] \in Nat /\ i[Producer(1)] \in Nat /\ i[Router] \in Nat
      /\ i[Consumer(0)] \in Nat /\ i[Consumer(1)] \in Nat
      /\ Len(v) \in Nat /\ Len(ingress) \in Nat /\ Len(egress) \in Nat
  BY <1>a, CountFacts
<1>1. ASSUME NEW id \in Ids, Write(id)
      PROVE  FlowInv'
  <2>1. /\ i' = [i EXCEPT ![Producer(id)] = @ + 1] /\ v' = v /\ egress' = egress
        /\ ingress' = Append(ingress, <<id, i[Producer(id)]>>)
    BY <1>1 DEF Write, In!Push
  <2>2. <<id, i[Producer(id)]>> \in Packets
    BY CountFacts DEF Packets
  <2>3. Len(ingress') = Len(ingress) + 1
    BY <2>1, <2>2, CountFacts, AppendProperties
  <2>4. /\ i'[Producer(id)] = i[Producer(id)] + 1 /\ i'[Router] = i[Router]
        /\ \A jd \in Ids : i'[Consumer(jd)] = i[Consumer(jd)]
        /\ \A jd \in Ids : jd # id => i'[Producer(jd)] = i[Producer(jd)]
    BY <1>b, <2>1
  <2>5. CASE id = 0
    <3>1. /\ i'[Producer(0)] = i[Producer(0)] + 1 /\ i'[Producer(1)] = i[Producer(1)]
          /\ i'[Consumer(0)] = i[Consumer(0)] /\ i'[Consumer(1)] = i[Consumer(1)]
          /\ i'[Router] = i[Router]
      BY <1>a, <2>4, <2>5
    <3>2. /\ Len(v') = Len(v) /\ Len(ingress') = Len(ingress) + 1
          /\ Len(egress') = Len(egress)
      BY <2>1, <2>3
    <3>8. FlowIn'
      BY ONLY <1>c, <3>1, <3>2, FlowInv DEF FlowInv, FlowIn, Entered
    <3>9. FlowOut'
      BY ONLY <1>c, <3>1, <3>2, FlowInv DEF FlowInv, FlowOut, Left
    <3> QED BY <3>8, <3>9 DEF FlowInv
  <2>6. CASE id = 1
    <3>1. /\ i'[Producer(1)] = i[Producer(1)] + 1 /\ i'[Producer(0)] = i[Producer(0)]
          /\ i'[Consumer(0)] = i[Consumer(0)] /\ i'[Consumer(1)] = i[Consumer(1)]
          /\ i'[Router] = i[Router]
      BY <1>a, <2>4, <2>6
    <3>2. /\ Len(v') = Len(v) /\ Len(ingress') = Len(ingress) + 1
          /\ Len(egress') = Len(egress)
      BY <2>1, <2>3
    <3>8. FlowIn'
      BY ONLY <1>c, <3>1, <3>2, FlowInv DEF FlowInv, FlowIn, Entered
    <3>9. FlowOut'
      BY ONLY <1>c, <3>1, <3>2, FlowInv DEF FlowInv, FlowOut, Left
    <3> QED BY <3>8, <3>9 DEF FlowInv
  <2> QED BY <1>a, <2>5, <2>6
<1>2. ASSUME NEW id \in Ids, Read(id)
      PROVE  FlowInv'
  <2>1. /\ i' = [i EXCEPT ![Consumer(id)] = @ + 1] /\ v' = v /\ ingress' = ingress
        /\ egress # << >> /\ egress' = Tail(egress)
    BY <1>2 DEF Read, Out!ValuePop, Out!Empty
  <2>2. Len(egress') = Len(egress) - 1
    BY <2>1, CountFacts, HeadTailProperties
  <2>3. /\ i'[Consumer(id)] = i[Consumer(id)] + 1 /\ i'[Router] = i[Router]
        /\ \A jd \in Ids : i'[Producer(jd)] = i[Producer(jd)]
        /\ \A jd \in Ids : jd # id => i'[Consumer(jd)] = i[Consumer(jd)]
    BY <1>b, <2>1
  <2>4. CASE id = 0
    <3>1. /\ i'[Consumer(0)] = i[Consumer(0)] + 1 /\ i'[Consumer(1)] = i[Consumer(1)]
          /\ i'[Producer(0)] = i[Producer(0)] /\ i'[Producer(1)] = i[Producer(1)]
          /\ i'[Router] = i[Router]
      BY <1>a, <2>3, <2>4
    <3>2. /\ Len(v') = Len(v) /\ Len(ingress') = Len(ingress)
          /\ Len(egress') = Len(egress) - 1
      BY <2>1, <2>2
    <3>8. FlowIn'
      BY ONLY <1>c, <3>1, <3>2, FlowInv DEF FlowInv, FlowIn, Entered
    <3>9. FlowOut'
      <4>1. Left(i[Router], Len(egress) - 1, i[Consumer(0)] + 1, i[Consumer(1)])
        BY ONLY <1>c, FlowInv, ReadCount DEF FlowInv, FlowOut
      <4> QED BY ONLY <3>1, <3>2, <4>1 DEF FlowOut
    <3> QED BY <3>8, <3>9 DEF FlowInv
  <2>5. CASE id = 1
    <3>1. /\ i'[Consumer(1)] = i[Consumer(1)] + 1 /\ i'[Consumer(0)] = i[Consumer(0)]
          /\ i'[Producer(0)] = i[Producer(0)] /\ i'[Producer(1)] = i[Producer(1)]
          /\ i'[Router] = i[Router]
      BY <1>a, <2>3, <2>5
    <3>2. /\ Len(v') = Len(v) /\ Len(ingress') = Len(ingress)
          /\ Len(egress') = Len(egress) - 1
      BY <2>1, <2>2
    <3>8. FlowIn'
      BY ONLY <1>c, <3>1, <3>2, FlowInv DEF FlowInv, FlowIn, Entered
    <3>9. FlowOut'
      <4>1. Left(i[Router], Len(egress) - 1, i[Consumer(0)], i[Consumer(1)] + 1)
        BY ONLY <1>c, FlowInv, ReadCount DEF FlowInv, FlowOut
      <4> QED BY ONLY <3>1, <3>2, <4>1 DEF FlowOut
    <3> QED BY <3>8, <3>9 DEF FlowInv
  <2> QED BY <1>a, <2>4, <2>5
<1>3. CASE RouterPop
  <2>1. /\ i' = i /\ v = << >> /\ v' = <<Head(ingress)>> /\ egress' = egress
        /\ ingress # << >> /\ ingress' = Tail(ingress)
    BY <1>3 DEF RouterPop, In!ValuePop, In!Empty
  <2>2. Len(ingress') = Len(ingress) - 1 /\ Len(v') = 1
    BY <2>1, CountFacts, HeadTailProperties
  <2>3. /\ Len(v) = 0 /\ Len(ingress') = Len(ingress) - 1 /\ Len(v') = 1
        /\ Len(egress') = Len(egress) /\ i' = i
    BY <2>1, <2>2, EmptySeq
  <2>8. FlowIn'
    BY ONLY <1>c, <2>3, FlowInv DEF FlowInv, FlowIn, Entered
  <2>9. FlowOut'
    BY ONLY <1>c, <2>3, FlowInv DEF FlowInv, FlowOut, Left
  <2> QED BY <2>8, <2>9 DEF FlowInv
<1>4. CASE RouterPush
  <2>1. /\ i' = [i EXCEPT ![Router] = @ + 1] /\ v # << >> /\ v' = << >>
        /\ ingress' = ingress /\ egress' = Append(egress, v[1])
    BY <1>4 DEF RouterPush, Out!Push
  <2>2. Len(v) = 1 /\ Len(v') = 0
    <3>1. Len(v) # 0 /\ Len(v) <= 1 /\ Len(v) \in Nat
      BY <2>1, CountFacts
    <3>2. \A n \in Nat : n # 0 /\ n <= 1 => n = 1
      OBVIOUS
    <3>3. Len(v) = 1
      BY ONLY <3>1, <3>2, Zenon
    <3> QED BY <2>1, <3>3
  <2>3. v[1] \in Packets
    BY <2>2, CountFacts, ElementOfSeq
  <2>4. Len(egress') = Len(egress) + 1
    BY <2>1, <2>3, CountFacts, AppendProperties
  <2>5. /\ i'[Router] = i[Router] + 1
        /\ \A id \in Ids : /\ i'[Producer(id)] = i[Producer(id)]
                          /\ i'[Consumer(id)] = i[Consumer(id)]
    BY <1>b, <2>1
  <2>6. /\ i'[Producer(0)] = i[Producer(0)] /\ i'[Producer(1)] = i[Producer(1)]
        /\ i'[Consumer(0)] = i[Consumer(0)] /\ i'[Consumer(1)] = i[Consumer(1)]
        /\ i'[Router] = i[Router] + 1 /\ Len(ingress') = Len(ingress)
    BY <1>a, <2>1, <2>5
  <2>8. FlowIn'
    BY ONLY <1>c, <2>2, <2>4, <2>6, FlowInv DEF FlowInv, FlowIn, Entered
  <2>9. FlowOut'
    BY ONLY <1>c, <2>2, <2>4, <2>6, FlowInv DEF FlowInv, FlowOut, Left
  <2> QED BY <2>8, <2>9 DEF FlowInv
<1>5. CASE FiberEnds(f)
  BY <1>5 DEF FiberEnds, dataVars, FlowInv, FlowIn, FlowOut
<1> QED BY <1>1, <1>2, <1>3, <1>4, <1>5 DEF FiberStep

(* The order of the ends.                                                  *)
LEMMA EndStep ==
  ASSUME RouterTypeOK, OrderInv, EndInv, Next
  PROVE  EndInv'
<1>a. ControlTypeOK
  BY TypeParts
<1>1. CASE MainStep
  BY <1>1, <1>a, ThreadNames
     DEF MainStep, ConstructRouter, CreateConsole, LaunchProducer,
         LaunchConsumer, GetProducer, GetConsumer, DestroyRouter, Get,
         ControlTypeOK, EndInv, FibersOf, Threads
<1>2. ASSUME NEW t \in Threads, ThreadStep(t)
      PROVE  EndInv'
  <2>1. /\ mainpc' = mainpc /\ i' = i
        /\ \E w \in {"launch", "join", "finish", "returned"} :
             pc' = [pc EXCEPT ![t] = w]
        /\ \A f \in Fibers : fiber'[f] = fiber[f] \/ fiber'[f] = "started"
    BY <1>2, <1>a DEF ThreadStep, StartingBlock, LaunchFiber, JoinFibers,
                      FinishLine, mainVars, dataVars, ControlTypeOK
  <2>2. /\ \A u \in Threads : pc'[u] = "unborn" => pc[u] = "unborn"
        /\ \A u \in Threads : u # t => pc'[u] = pc[u]
    BY <1>a, <2>1 DEF ControlTypeOK
  <2>3. \A f \in Fibers : fiber'[f] = "ended" => i'[f] = Limit(f)
    BY <2>1 DEF EndInv
  <2>4. pc'[t] \in {"join", "finish", "returned"} =>
          \A f \in FibersOf(t) : fiber'[f] # "none"
    <3>1. CASE LaunchFiber(t)
      <4>1. PICK f \in FibersOf(t) :
              /\ \A g \in FibersOf(t) : g[2] < f[2] => fiber[g] # "none"
              /\ fiber' = [fiber EXCEPT ![f] = "started"]
              /\ pc' = [pc EXCEPT ![t] = IF \A g \in FibersOf(t) : g[2] <= f[2]
                                         THEN "join" ELSE "launch"]
        BY <3>1 DEF LaunchFiber
      <4>2. ASSUME pc'[t] # "launch"
            PROVE  \A g \in FibersOf(t) : g[2] <= f[2]
        BY <1>a, <4>1, <4>2 DEF ControlTypeOK
      <4>3. \A g, h \in FibersOf(t) : g[2] \in Nat /\ (g[2] = h[2] => g = h)
        BY DEF FibersOf, Fibers, Router, Producers, Consumers, Producer,
               Consumer, Ids
      <4>4. ASSUME pc'[t] # "launch", NEW g \in FibersOf(t)
            PROVE  fiber'[g] # "none"
        <5>1. g = f \/ g[2] < f[2]
          BY <4>2, <4>3, <4>4
        <5> QED
          BY <1>a, <4>1, <5>1 DEF ControlTypeOK, FibersOf
      <4> QED BY <4>4
    <3>2. CASE StartingBlock(t) \/ JoinFibers(t) \/ FinishLine(t)
      BY <1>a, <3>2 DEF StartingBlock, JoinFibers, FinishLine, ControlTypeOK, EndInv
    <3> QED BY <1>2, <3>1, <3>2 DEF ThreadStep
  <2>5. \A u \in Threads : pc'[u] \in {"join", "finish", "returned"} =>
          \A f \in FibersOf(u) : fiber'[f] # "none"
    BY <2>1, <2>2, <2>4 DEF EndInv, FibersOf
  <2> QED BY <2>1, <2>2, <2>3, <2>5, ThreadNames DEF EndInv
<1>3. ASSUME NEW f \in Fibers, FiberStep(f)
      PROVE  EndInv'
  <2>1. mainpc' = mainpc /\ pc' = pc
    BY <1>3 DEF FiberStep, Write, Read, RouterPop, RouterPush, FiberEnds, mainVars
  <2>2. CASE FiberEnds(f)
    <3>1. /\ fiber' = [fiber EXCEPT ![f] = "ended"] /\ i' = i
          /\ i[f] >= Limit(f)
      BY <2>2 DEF FiberEnds
    <3>2. i[f] = Limit(f)
      <4>1. i[f] \in Nat /\ Limit(f) \in Nat /\ i[f] <= Limit(f)
        BY LimitType DEF RouterTypeOK
      <4> QED BY <3>1, <4>1
    <3> QED BY <1>a, <2>1, <3>1, <3>2 DEF EndInv, ControlTypeOK, FibersOf
  <2>3. CASE ~FiberEnds(f)
    <3>1. /\ fiber' = fiber /\ fiber[f] = "started"
          /\ \A g \in Fibers : g # f => i'[g] = i[g]
      BY <1>3, <2>3 DEF FiberStep, Write, Read, RouterPop, RouterPush, Runs,
                        RouterTypeOK
    <3> QED BY <2>1, <3>1 DEF EndInv
  <2> QED BY <2>2, <2>3
<1>4. CASE Ended
  BY <1>4 DEF Ended, vars, mainVars, EndInv
<1> QED BY <1>1, <1>2, <1>3, <1>4 DEF Next

THEOREM FlowEndInvariant == Spec => []FlowEndInv
<1>1. Init => FlowEndInv
  <2> SUFFICES ASSUME Init
               PROVE  FlowEndInv
    OBVIOUS
  <2>1. \A id \in Ids : i[Producer(id)] = 0 /\ i[Consumer(id)] = id
    BY FiberKinds DEF Init, Producers, Consumers, Producer, Consumer
  <2>2. i[Router] = 0 /\ Len(v) = 0 /\ Len(ingress) = 0 /\ Len(egress) = 0
    BY FiberKinds, EmptySeq DEF Init, Consumers, Consumer, Router
  <2>3. FlowInv
    BY <2>1, <2>2 DEF FlowInv, FlowIn, FlowOut, Ids, Entered, Left
  <2>4. EndInv
    BY ThreadNames DEF Init, EndInv
  <2> QED BY <2>3, <2>4 DEF FlowEndInv
<1>2. RouterTypeOK /\ RouterInv /\ FlowEndInv /\ [Next]_vars => FlowEndInv'
  <2> SUFFICES ASSUME RouterTypeOK, RouterInv, FlowEndInv, [Next]_vars
               PROVE  FlowEndInv'
    OBVIOUS
  <2>1. CASE UNCHANGED vars
    BY <2>1 DEF FlowEndInv, FlowInv, FlowIn, FlowOut, EndInv, vars, mainVars, dataVars
  <2>2. CASE Next
    <3>1. EndInv'
      BY <2>2, EndStep DEF FlowEndInv, RouterInv, OrderInv
    <3>2. ASSUME NEW f \in Fibers, FiberStep(f)
          PROVE  FlowInv'
      BY <3>2, FlowStep DEF FlowEndInv
    <3>3. ASSUME UNCHANGED <<i, dataVars>>
          PROVE  FlowInv'
      BY <3>3 DEF FlowEndInv, FlowInv, FlowIn, FlowOut, dataVars
    <3> QED
      BY <2>2, <3>1, <3>2, <3>3
         DEF Next, Ended, vars, MainStep, ConstructRouter, CreateConsole,
             LaunchProducer, LaunchConsumer, GetProducer, GetConsumer,
             DestroyRouter, Get, ThreadStep, StartingBlock, LaunchFiber,
             JoinFibers, FinishLine, FlowEndInv
  <2> QED BY <2>1, <2>2
<1> QED BY <1>1, <1>2, RouterInvariant, RouterTypeCorrect, PTL DEF Spec

(* The program never deadlocks, however small the channels and however     *)
(* long the messages: fibers that wait for a full and for an empty channel *)
(* would have lost or invented a packet.                                   *)
THEOREM RouterNeverDeadlocks == Spec => []NoDeadlock
<1>1. RouterTypeOK /\ RouterInv /\ Holds /\ FlowEndInv => NoDeadlock
  <2> SUFFICES ASSUME RouterTypeOK, RouterInv, Holds, FlowEndInv, MainWaits,
                      \A t \in Threads : ThreadWaits(t),
                      \A f \in Fibers : FiberWaits(f)
               PROVE  FALSE
    BY DEF NoDeadlock
  <2> USE FiberKinds
  <2>a. 0 \in Ids /\ 1 \in Ids
    BY DEF Ids
  <2>1. \A t \in Threads : pc[t] \in {"join", "finish", "returned"}
    <3>1. \A t \in Threads : pc[t] # "unborn"
      BY DEF FlowEndInv, EndInv, MainWaits
    <3> QED BY <3>1 DEF ThreadWaits
  <2>2. \A f \in Fibers : fiber[f] \in {"started", "ended"}
    <3>1. \A f \in Fibers : fiber[f] # "none"
      BY <2>1 DEF FlowEndInv, EndInv, FibersOf
    <3> QED BY <3>1 DEF RouterTypeOK
  <2>4. \A f \in Fibers : i[f] = Limit(f) \/ fiber[f] = "started"
    BY <2>2 DEF FlowEndInv, EndInv
  <2>5. \A f \in Fibers : i[f] = Limit(f) \/ (Runs(f) /\ i[f] < Limit(f))
    <3>1. \A f \in Fibers : i[f] \in Nat /\ Limit(f) \in Nat /\ i[f] <= Limit(f)
      BY LimitType DEF RouterTypeOK
    <3> QED BY <2>4, <3>1 DEF Runs
  <2>6. /\ \A id \in Ids :
             /\ i[Producer(id)] = MessageLength \/ Len(ingress) = Capacity - 1
             /\ i[Consumer(id)] = MessageLength \/ Len(egress) = 0
        /\ \/ i[Router] = MessageLength * 2
           \/ Len(v) = 0 /\ Len(ingress) = 0
           \/ Len(egress) = Capacity - 1
    <3>1. /\ In!Full => Len(ingress) = Capacity - 1
          /\ Out!Full => Len(egress) = Capacity - 1
          /\ In!Empty => Len(ingress) = 0
          /\ Out!Empty => Len(egress) = 0
      <4>1. /\ Len(ingress) \in Nat /\ Len(ingress) <= Capacity - 1
            /\ Len(egress) \in Nat /\ Len(egress) <= Capacity - 1
            /\ Capacity \in Nat
        BY RouterAssumption, CountFacts, TypeParts DEF ChannelTypeOK
      <4>2. /\ In!Full => Len(ingress) = Capacity - 1
            /\ Out!Full => Len(egress) = Capacity - 1
        BY <4>1 DEF In!Full, In!Room, Out!Full, Out!Room
      <4>3. /\ In!Empty => Len(ingress) = 0
            /\ Out!Empty => Len(egress) = 0
        BY EmptySeq DEF In!Empty, Out!Empty
      <4> QED BY <4>2, <4>3
    <3>2. ASSUME NEW id \in Ids
          PROVE  /\ i[Producer(id)] = MessageLength \/ In!Full
                 /\ i[Consumer(id)] = MessageLength \/ Out!Empty
      <4>1. FiberWaits(Producer(id)) /\ FiberWaits(Consumer(id))
        OBVIOUS
      <4>2. /\ Limit(Producer(id)) = MessageLength
            /\ Limit(Consumer(id)) = MessageLength
        BY CountFacts
      <4>3. /\ Producer(id) \notin Consumers /\ Producer(id) # Router
            /\ Consumer(id) \notin Producers /\ Consumer(id) # Router
        BY DEF Producers, Consumers, Producer, Consumer, Router
      <4> QED BY <2>5, <4>1, <4>2, <4>3 DEF FiberWaits
    <3>3. \/ i[Router] = MessageLength * 2
          \/ v = << >> /\ In!Empty
          \/ v # << >> /\ Out!Full
      <4>1. FiberWaits(Router) /\ Limit(Router) = MessageLength * 2
        BY CountFacts
      <4>2. Router \notin Producers /\ Router \notin Consumers
        BY DEF Producers, Consumers, Producer, Consumer, Router
      <4> QED BY <2>5, <4>1, <4>2 DEF FiberWaits
    <3> QED BY <3>1, <3>2, <3>3, CountFacts
  <2>7. \A f \in Fibers : i[f] = Limit(f)
    <3>1. /\ i[Producer(0)] = MessageLength /\ i[Producer(1)] = MessageLength
          /\ i[Consumer(0)] = MessageLength /\ i[Consumer(1)] = MessageLength
          /\ i[Router] = MessageLength * 2
      <4>1. /\ MessageLength \in Nat /\ Capacity - 1 \in Nat /\ Capacity - 1 >= 1
        BY RouterAssumption
      <4>2. /\ i[Producer(0)] \in 0..MessageLength
            /\ i[Producer(1)] \in 0..MessageLength
            /\ i[Consumer(0)] \in 0..MessageLength
            /\ i[Consumer(1)] \in 0..MessageLength
        BY <2>a, <4>1, CountFacts
      <4>3. /\ i[Router] \in Nat /\ i[Router] <= MessageLength * 2
            /\ Len(v) \in Nat /\ Len(ingress) \in Nat /\ Len(egress) \in Nat
        BY CountFacts
      <4>4. FlowIn /\ FlowOut
        BY DEF FlowEndInv, FlowInv
      <4> HIDE FiberKinds
      <4> QED
        <5>1. Stuck(i[Producer(0)], i[Producer(1)], i[Consumer(0)],
                    i[Consumer(1)], i[Router], Len(v), Len(ingress),
                    Len(egress))
          BY ONLY <2>a, <2>6, Zenon DEF Stuck
        <5>2. /\ Entered(i[Router], i[Producer(0)], i[Producer(1)], Len(v),
                         Len(ingress))
              /\ Left(i[Router], Len(egress), i[Consumer(0)], i[Consumer(1)])
          BY ONLY <4>4 DEF FlowIn, FlowOut
        <5> QED BY ONLY <4>1, <4>2, <4>3, <5>1, <5>2, AllDone
    <3>2. \A id \in Ids : id = 0 \/ id = 1
      BY DEF Ids
    <3> QED BY <3>1, <3>2, CountFacts DEF Fibers, Producers, Consumers
  <2>8. \A f \in Fibers : fiber[f] = "ended"
    <3>1. v = << >>
      <4>1. v # << >> => i[Router] < Limit(Router)
        BY DEF Holds
      <4>2. i[Router] \in Nat /\ Limit(Router) \in Nat
        BY CountFacts, LimitType
      <4> QED BY <2>7, <4>1, <4>2
    <3>2. \A f \in Fibers : ~(i[f] < Limit(f))
      <4>1. \A f \in Fibers : Limit(f) \in Nat
        BY LimitType
      <4> QED BY <2>7, <4>1
    <3>3. \A f \in Fibers : ~Runs(f)
      BY <3>1, <3>2 DEF FiberWaits
    <3> QED BY <2>2, <3>3 DEF Runs
  <2>9. \A t \in Threads : pc[t] = "returned"
    <3>1. \A t \in Threads : pc[t] \in {"finish", "returned"}
      BY <2>1, <2>8 DEF ThreadWaits, FibersOf
    <3> QED BY <3>1 DEF ThreadWaits
  <2> QED BY <2>9, ThreadNames DEF MainWaits
<1> QED BY <1>1, FlowEndInvariant, RouterInvariant, RouterTypeCorrect, PTL
=============================================================================
