------------------------- MODULE AsyncRouterProofs -------------------------
(***************************************************************************)
(* Proofs about the router of fibers_with_threads.cpp for every capacity   *)
(* of its channels and every number of messages.                           *)
(***************************************************************************)
EXTENDS AsyncRouter, SequenceTheorems, TLAPS

-----------------------------------------------------------------------------
(* Every variable has its type and no channel holds more than its room.    *)

LEMMA ThreadNames ==
  /\ "router" \in Threads /\ "producer" \in Threads /\ "consumer" \in Threads
  /\ Clients \subseteq Threads
  /\ \A t \in Clients : t = "producer" \/ t = "consumer"
BY DEF Threads, Clients

ControlTypeOK ==
  /\ mainpc \in {"router", "producer", "consumer", "get producer",
                 "get consumer", "join", "get router", "end", "terminated"}
  /\ threadpc \in [Threads -> {"unborn", "run", "assign", "returned"}]
  /\ f \in BOOLEAN
  /\ fiber \in {"none", "running", "waiting", "ended"}

DataTypeOK ==
  /\ counter \in [Threads -> 0 .. MessageLength]
  /\ held \in Seq(Nat) /\ Len(held) <= 1
  /\ ingress \in Seq(Nat) /\ Len(ingress) <= Capacity - 1
  /\ egress \in Seq(Nat) /\ Len(egress) <= Capacity - 1

(* The router fiber still has a packet to count while it holds one.        *)
Holds == held # << >> => counter["router"] < MessageLength

LEMMA TypeParts == AsyncTypeOK <=> ControlTypeOK /\ DataTypeOK
BY DEF AsyncTypeOK, ControlTypeOK, DataTypeOK

(* What the steps of the program are, one by one.                          *)
LEMMA Steps ==
  ASSUME [AsyncNext]_asyncVars
  PROVE  \/ AsyncMainStep
         \/ LaunchFiber \/ AssignFiber \/ RouterWaits \/ RouterEnds
         \/ RouterPop \/ RouterPush \/ Write \/ Read
         \/ \E t \in Clients : ThreadReturns(t)
         \/ UNCHANGED asyncVars
BY DEF AsyncNext, RouterStep, ClientStep, AsyncEnded

(* Only these four move packets.                                           *)
dataVars == <<counter, held, ingress, egress>>

LEMMA DataMoves ==
  ASSUME [AsyncNext]_asyncVars, ~RouterPop, ~RouterPush, ~Write, ~Read
  PROVE  UNCHANGED dataVars
BY Steps DEF AsyncMainStep, ConstructRouter, LaunchProducer, LaunchConsumer, Launch,
   GetProducer, GetConsumer, GetRouter, Get, JoinFiber, LaunchFiber,
   AssignFiber, RouterWaits, RouterEnds, ThreadReturns, asyncVars, dataVars

LEMMA ControlTypeStep ==
  ASSUME ControlTypeOK, [AsyncNext]_asyncVars
  PROVE  ControlTypeOK'
<1> USE ThreadNames DEF ControlTypeOK
<1>1. CASE AsyncMainStep
  BY <1>1 DEF AsyncMainStep, ConstructRouter, LaunchProducer, LaunchConsumer, Launch,
     GetProducer, GetConsumer, GetRouter, Get, JoinFiber
<1>2. CASE LaunchFiber \/ AssignFiber \/ RouterWaits \/ RouterEnds
  BY <1>2 DEF LaunchFiber, AssignFiber, RouterWaits, RouterEnds
<1>3. CASE RouterPop \/ RouterPush \/ Write \/ Read
  BY <1>3 DEF RouterPop, RouterPush, Write, Read
<1>4. ASSUME NEW t \in Clients, ThreadReturns(t)
      PROVE  ControlTypeOK'
  BY <1>4 DEF ThreadReturns
<1>5. CASE UNCHANGED asyncVars
  BY <1>5 DEF asyncVars
<1> QED BY <1>1, <1>2, <1>3, <1>4, <1>5, Steps

(* One more packet counted by thread t.                                    *)
LEMMA CountUp ==
  ASSUME counter \in [Threads -> 0 .. MessageLength], NEW t \in Threads,
         counter[t] < MessageLength, counter' = [counter EXCEPT ![t] = @ + 1]
  PROVE  /\ counter' \in [Threads -> 0 .. MessageLength]
         /\ counter'[t] = counter[t] + 1
         /\ \A u \in Threads : u # t => counter'[u] = counter[u]
<1>1. counter[t] \in 0 .. MessageLength /\ counter[t] + 1 \in 0 .. MessageLength
  BY AsyncAssumption
<1> QED BY <1>1

LEMMA DataTypeStep ==
  ASSUME DataTypeOK, Holds, [AsyncNext]_asyncVars
  PROVE  DataTypeOK' /\ Holds'
<1> USE AsyncAssumption, ThreadNames
<1>1. CASE Write
  <2>1. /\ counter' \in [Threads -> 0 .. MessageLength] /\ counter'["router"] = counter["router"]
        /\ counter["producer"] \in Nat
    BY <1>1, CountUp DEF Write, DataTypeOK
  <2>2. ingress' = Append(ingress, counter["producer"]) /\ ~In!Full
    BY <1>1 DEF Write, In!Push
  <2>3. ingress' \in Seq(Nat) /\ Len(ingress') <= Capacity - 1
    BY <2>1, <2>2 DEF DataTypeOK, In!Full, In!Room
  <2> QED BY <1>1, <2>1, <2>3 DEF Write, DataTypeOK, Holds
<1>2. CASE Read
  <2>1. counter' \in [Threads -> 0 .. MessageLength] /\ counter'["router"] = counter["router"]
    BY <1>2, CountUp DEF Read, DataTypeOK
  <2>2. egress' \in Seq(Nat) /\ Len(egress') <= Capacity - 1
    BY <1>2 DEF Read, DataTypeOK, Out!ValuePop, Out!Empty
  <2> QED BY <1>2, <2>1, <2>2 DEF Read, DataTypeOK, Holds
<1>3. CASE RouterPop
  <2>1. /\ ingress # << >> /\ ingress' = Tail(ingress)
        /\ held' = <<Head(ingress)>> /\ counter["router"] < MessageLength
        /\ counter' = counter /\ egress' = egress
    BY <1>3 DEF RouterPop, Pops, In!ValuePop, In!Empty
  <2>2. /\ held' \in Seq(Nat) /\ Len(held') = 1
        /\ ingress' \in Seq(Nat) /\ Len(ingress') <= Capacity - 1
    BY <2>1 DEF DataTypeOK
  <2> QED BY <2>1, <2>2 DEF DataTypeOK, Holds
<1>4. CASE RouterPush
  <2>1. /\ held # << >> /\ held' = << >> /\ egress' = Append(egress, held[1])
        /\ ~Out!Full /\ ingress' = ingress
    BY <1>4 DEF RouterPush, Pushes, Out!Push
  <2>2. counter' \in [Threads -> 0 .. MessageLength]
    BY <1>4, <2>1, CountUp DEF RouterPush, Holds, DataTypeOK
  <2>3. held[1] \in Nat
    BY <2>1, EmptySeq, ElementOfSeq, LenProperties DEF DataTypeOK
  <2>4. egress' \in Seq(Nat) /\ Len(egress') <= Capacity - 1
    BY <2>1, <2>3 DEF DataTypeOK, Out!Full, Out!Room
  <2> QED BY <2>1, <2>2, <2>4 DEF DataTypeOK, Holds
<1>5. CASE UNCHANGED dataVars
  BY <1>5 DEF dataVars, DataTypeOK, Holds
<1> QED BY <1>1, <1>2, <1>3, <1>4, <1>5, DataMoves

(* The types of the variables, whatever the capacity and the number of     *)
(* messages: the channels are never overfull, and no loop counts beyond    *)
(* its end.                                                                *)
THEOREM AsyncTypeCorrect == AsyncSpec => [](AsyncTypeOK /\ Holds)
<1>1. AsyncInit => AsyncTypeOK /\ Holds
  <2> SUFFICES ASSUME AsyncInit
               PROVE  ControlTypeOK /\ DataTypeOK /\ Holds
    BY TypeParts
  <2>1. 0 \in 0 .. MessageLength /\ Capacity - 1 >= 0
    BY AsyncAssumption
  <2>2. DataTypeOK
    BY <2>1 DEF AsyncInit, DataTypeOK
  <2> QED BY <2>2 DEF AsyncInit, ControlTypeOK, Holds
<1>2. AsyncTypeOK /\ Holds /\ [AsyncNext]_asyncVars => AsyncTypeOK' /\ Holds'
  <2> SUFFICES ASSUME AsyncTypeOK, Holds, [AsyncNext]_asyncVars
               PROVE  AsyncTypeOK' /\ Holds'
    OBVIOUS
  <2>1. ControlTypeOK' /\ DataTypeOK' /\ Holds'
    BY TypeParts, ControlTypeStep, DataTypeStep
  <2> QED BY <2>1 DEF AsyncTypeOK, ControlTypeOK, DataTypeOK
<1> QED BY <1>1, <1>2, PTL DEF AsyncSpec

-----------------------------------------------------------------------------
(* The packets are numbered without gap from the consumer to the producer. *)

(* The packets that are in the channels and the router fiber are those the *)
(* producer has written and the consumer has not read; each is its number. *)
CountInv ==
  /\ counter["producer"] = counter["router"] + Len(held) + Len(ingress)
  /\ counter["router"] = counter["consumer"] + Len(egress)

IngressInv ==
  \A k \in 1 .. Len(ingress) : ingress[k] = counter["router"] + Len(held) + k - 1
HeldInv == held # << >> => held[1] = counter["router"]
EgressInv == \A k \in 1 .. Len(egress) : egress[k] = counter["consumer"] + k - 1

PacketInv == CountInv /\ IngressInv /\ HeldInv /\ EgressInv

(* The numbers the packets are counted with.                               *)
LEMMA Numbers ==
  ASSUME DataTypeOK
  PROVE  /\ \A t \in Threads : counter[t] \in Nat /\ counter[t] <= MessageLength
         /\ counter["router"] \in Nat /\ counter["producer"] \in Nat /\ counter["consumer"] \in Nat
         /\ Len(held) \in Nat /\ Len(ingress) \in Nat /\ Len(egress) \in Nat
         /\ held = << >> <=> Len(held) = 0
         /\ ingress = << >> <=> Len(ingress) = 0
         /\ egress = << >> <=> Len(egress) = 0
         /\ held \in Seq(Nat) /\ ingress \in Seq(Nat) /\ egress \in Seq(Nat)
BY AsyncAssumption, ThreadNames, LenProperties, EmptySeq DEF DataTypeOK

LEMMA HeldOne ==
  ASSUME DataTypeOK, held # << >>
  PROVE  Len(held) = 1
<1>1. Len(held) \in Nat /\ Len(held) # 0 /\ Len(held) <= 1
  BY Numbers DEF DataTypeOK
<1>2. \A n \in Nat : n # 0 /\ n <= 1 => n = 1
  OBVIOUS
<1> QED BY ONLY <1>1, <1>2, Zenon

LEMMA WriteKeepsPackets ==
  ASSUME DataTypeOK, PacketInv, Write
  PROVE  PacketInv'
<1> USE ThreadNames, Numbers
<1>1. /\ counter'["producer"] = counter["producer"] + 1
      /\ counter'["router"] = counter["router"] /\ counter'["consumer"] = counter["consumer"]
  BY CountUp DEF Write, DataTypeOK
<1>2. /\ ingress' = Append(ingress, counter["producer"])
      /\ held' = held /\ egress' = egress
  BY DEF Write, In!Push
<1>3. /\ Len(ingress') = Len(ingress) + 1
      /\ \A k \in 1 .. Len(ingress) : ingress'[k] = ingress[k]
      /\ ingress'[Len(ingress) + 1] = counter["producer"]
  BY <1>2, AppendProperties
<1>4. CountInv'
  <2>1. Len(held') = Len(held) /\ Len(egress') = Len(egress)
    BY <1>2
  <2>2. /\ counter["producer"] \in Nat /\ counter["router"] \in Nat
        /\ Len(held) \in Nat /\ Len(ingress) \in Nat
    OBVIOUS
  <2>3. /\ counter["producer"] = counter["router"] + Len(held) + Len(ingress)
        /\ counter["router"] = counter["consumer"] + Len(egress)
    BY DEF PacketInv, CountInv
  <2>4. counter["producer"] + 1 = counter["router"] + Len(held) + (Len(ingress) + 1)
    BY ONLY <2>2, <2>3
  <2> QED BY ONLY <1>1, <1>3, <2>1, <2>3, <2>4 DEF CountInv
<1>5. IngressInv'
  <2> SUFFICES ASSUME NEW k \in 1 .. Len(ingress) + 1
               PROVE  ingress'[k] = counter["router"] + Len(held) + k - 1
    BY <1>1, <1>2, <1>3 DEF IngressInv
  <2>0. k = Len(ingress) + 1 \/ k \in 1 .. Len(ingress)
    BY ONLY Len(ingress) \in Nat, k \in 1 .. Len(ingress) + 1
  <2>1. CASE k = Len(ingress) + 1
    BY <2>1, <1>3 DEF PacketInv, CountInv
  <2>2. CASE k \in 1 .. Len(ingress)
    BY <2>2, <1>3 DEF PacketInv, IngressInv
  <2> QED BY <2>0, <2>1, <2>2
<1>6. HeldInv' /\ EgressInv'
  BY <1>1, <1>2 DEF PacketInv, HeldInv, EgressInv
<1> QED BY <1>4, <1>5, <1>6 DEF PacketInv

LEMMA ReadKeepsPackets ==
  ASSUME DataTypeOK, PacketInv, Read
  PROVE  PacketInv'
<1> USE ThreadNames, Numbers
<1>1. /\ counter'["consumer"] = counter["consumer"] + 1
      /\ counter'["router"] = counter["router"] /\ counter'["producer"] = counter["producer"]
  BY CountUp DEF Read, DataTypeOK
<1>2. /\ egress # << >> /\ egress' = Tail(egress)
      /\ held' = held /\ ingress' = ingress
  BY DEF Read, Out!ValuePop, Out!Empty
<1>3. /\ Len(egress') = Len(egress) - 1
      /\ \A k \in 1 .. Len(egress) - 1 : egress'[k] = egress[k + 1]
  BY <1>2, HeadTailProperties
<1>4. CountInv'
  BY <1>1, <1>2, <1>3 DEF PacketInv, CountInv
<1>5. EgressInv'
  <2> SUFFICES ASSUME NEW k \in 1 .. Len(egress) - 1
               PROVE  egress'[k] = counter["consumer"] + 1 + k - 1
    BY <1>1, <1>3 DEF EgressInv
  <2>1. k + 1 \in 1 .. Len(egress)
    OBVIOUS
  <2> QED BY <2>1, <1>3 DEF PacketInv, EgressInv
<1>6. HeldInv' /\ IngressInv'
  BY <1>1, <1>2 DEF PacketInv, HeldInv, IngressInv
<1> QED BY <1>4, <1>5, <1>6 DEF PacketInv

LEMMA PopKeepsPackets ==
  ASSUME DataTypeOK, PacketInv, RouterPop
  PROVE  PacketInv'
<1> USE Numbers
<1>1. /\ ingress # << >> /\ ingress' = Tail(ingress)
      /\ held = << >> /\ held' = <<Head(ingress)>>
      /\ counter' = counter /\ egress' = egress
  BY DEF RouterPop, Pops, In!ValuePop, In!Empty
<1>2. /\ Len(ingress') = Len(ingress) - 1
      /\ \A k \in 1 .. Len(ingress) - 1 : ingress'[k] = ingress[k + 1]
      /\ Head(ingress) = ingress[1] /\ 1 \in 1 .. Len(ingress)
  BY <1>1, HeadTailProperties
<1>3. /\ Len(held) = 0 /\ Len(held') = 1 /\ held'[1] = ingress[1]
  BY <1>1, <1>2
<1>4. CountInv'
  BY <1>1, <1>2, <1>3 DEF PacketInv, CountInv
<1>5. IngressInv'
  <2> SUFFICES ASSUME NEW k \in 1 .. Len(ingress) - 1
               PROVE  ingress'[k] = counter["router"] + 1 + k - 1
    BY <1>1, <1>2, <1>3 DEF IngressInv
  <2>1. k + 1 \in 1 .. Len(ingress)
    OBVIOUS
  <2> QED BY <2>1, <1>2, <1>3 DEF PacketInv, IngressInv
<1>6. HeldInv' /\ EgressInv'
  BY <1>1, <1>2, <1>3 DEF PacketInv, IngressInv, HeldInv, EgressInv
<1> QED BY <1>4, <1>5, <1>6 DEF PacketInv

LEMMA PushKeepsPackets ==
  ASSUME DataTypeOK, Holds, PacketInv, RouterPush
  PROVE  PacketInv'
<1> USE ThreadNames, Numbers
<1>1. /\ held # << >> /\ held' = << >> /\ egress' = Append(egress, held[1])
      /\ ingress' = ingress
  BY DEF RouterPush, Pushes, Out!Push
<1>2. /\ counter'["router"] = counter["router"] + 1
      /\ counter'["producer"] = counter["producer"] /\ counter'["consumer"] = counter["consumer"]
  BY <1>1, CountUp DEF RouterPush, Holds, DataTypeOK
<1>3. Len(held) = 1 /\ Len(held') = 0 /\ held[1] \in Nat
  BY <1>1, HeldOne, ElementOfSeq
<1>4. /\ Len(egress') = Len(egress) + 1
      /\ \A k \in 1 .. Len(egress) : egress'[k] = egress[k]
      /\ egress'[Len(egress) + 1] = counter["router"]
  BY <1>1, <1>3, AppendProperties DEF PacketInv, HeldInv
<1>5. CountInv'
  BY <1>1, <1>2, <1>3, <1>4 DEF PacketInv, CountInv
<1>6. IngressInv' /\ HeldInv'
  BY <1>1, <1>2, <1>3 DEF PacketInv, IngressInv, HeldInv
<1>7. EgressInv'
  <2> SUFFICES ASSUME NEW k \in 1 .. Len(egress) + 1
               PROVE  egress'[k] = counter["consumer"] + k - 1
    BY <1>2, <1>4 DEF EgressInv
  <2>0. k = Len(egress) + 1 \/ k \in 1 .. Len(egress)
    BY ONLY Len(egress) \in Nat, k \in 1 .. Len(egress) + 1
  <2>1. CASE k = Len(egress) + 1
    BY <2>1, <1>4 DEF PacketInv, CountInv
  <2>2. CASE k \in 1 .. Len(egress)
    BY <2>2, <1>4 DEF PacketInv, EgressInv
  <2> QED BY <2>0, <2>1, <2>2
<1> QED BY <1>5, <1>6, <1>7 DEF PacketInv

LEMMA PacketStep ==
  ASSUME DataTypeOK, Holds, PacketInv, [AsyncNext]_asyncVars
  PROVE  PacketInv'
<1>1. CASE UNCHANGED dataVars
  BY <1>1 DEF dataVars, PacketInv, CountInv, IngressInv, HeldInv, EgressInv
<1> QED BY <1>1, DataMoves, WriteKeepsPackets, ReadKeepsPackets,
           PopKeepsPackets, PushKeepsPackets

(* Every packet is where its number says: no packet is lost, doubled or    *)
(* overtaken between the counters of the producer and the consumer.        *)
THEOREM PacketInvariant == AsyncSpec => []PacketInv
<1>1. AsyncInit => PacketInv
  BY ThreadNames
     DEF AsyncInit, PacketInv, CountInv, IngressInv, HeldInv, EgressInv
<1>2. AsyncTypeOK /\ Holds /\ PacketInv /\ [AsyncNext]_asyncVars => PacketInv'
  BY TypeParts, PacketStep
<1> QED BY <1>1, <1>2, AsyncTypeCorrect, PTL DEF AsyncSpec

(* The consumer reads the numbers as the producer counts them, whatever    *)
(* the interleaving of the three threads and the router fiber.             *)
THEOREM PacketsInOrder == AsyncSpec => []ReadsInOrder
<1>1. AsyncTypeOK /\ PacketInv => ReadsInOrder
  <2> SUFFICES ASSUME AsyncTypeOK, PacketInv, egress # << >>
               PROVE  Head(egress) = counter["consumer"]
    BY DEF ReadsInOrder
  <2>1. DataTypeOK
    BY TypeParts
  <2>2. Head(egress) = egress[1] /\ 1 \in 1 .. Len(egress)
    BY <2>1, Numbers, HeadTailProperties
  <2> QED BY <2>1, <2>2, Numbers DEF PacketInv, EgressInv
<1> QED BY <1>1, AsyncTypeCorrect, PacketInvariant, PTL

-----------------------------------------------------------------------------
(* Who has started and who has ended. *)

(* The fiber is launched by the function of the router thread, which       *)
(* returns when it has stored it; the loops end when they are complete.    *)
ThreadInv ==
  /\ f <=> threadpc["router"] = "returned"
  /\ fiber = "none" <=> threadpc["router"] \in {"unborn", "run"}
  /\ fiber = "ended" => counter["router"] = MessageLength
  /\ \A t \in Clients : /\ threadpc[t] # "assign"
                         /\ threadpc[t] = "returned" => counter[t] = MessageLength

(* main() waits for threads it has launched, in the order of the source.   *)
BirthInv ==
  /\ mainpc = "router" <=> threadpc["router"] = "unborn"
  /\ mainpc \in {"router", "producer"} <=> threadpc["producer"] = "unborn"
  /\ mainpc \in {"router", "producer", "consumer"} <=>
       threadpc["consumer"] = "unborn"

WaitInv ==
  /\ mainpc \in {"get consumer", "join", "get router", "end", "terminated"} =>
       threadpc["producer"] = "returned"
  /\ mainpc \in {"join", "get router", "end", "terminated"} =>
       threadpc["consumer"] = "returned"
  /\ mainpc \in {"get router", "end"} => fiber = "ended"
  /\ mainpc = "end" => threadpc["router"] = "returned"

LifeInv == ThreadInv /\ BirthInv /\ WaitInv

LEMMA MainKeepsLife ==
  ASSUME AsyncTypeOK, LifeInv, AsyncMainStep
  PROVE  LifeInv'
<1> USE ThreadNames
<1>0. ControlTypeOK
  BY TypeParts
<1>1. CASE ConstructRouter
  BY <1>0, <1>1 DEF ConstructRouter, Launch, ControlTypeOK, LifeInv, ThreadInv,
     BirthInv, WaitInv, Clients
<1>2. CASE LaunchProducer
  BY <1>0, <1>2 DEF LaunchProducer, Launch, ControlTypeOK, LifeInv, ThreadInv,
     BirthInv, WaitInv, Clients
<1>3. CASE LaunchConsumer
  BY <1>0, <1>3 DEF LaunchConsumer, Launch, ControlTypeOK, LifeInv, ThreadInv,
     BirthInv, WaitInv, Clients
<1>4. CASE GetProducer
  BY <1>4 DEF GetProducer, Get, LifeInv, ThreadInv, BirthInv, WaitInv
<1>5. CASE GetConsumer
  BY <1>5 DEF GetConsumer, Get, LifeInv, ThreadInv, BirthInv, WaitInv
<1>6. CASE GetRouter
  BY <1>6 DEF GetRouter, Get, LifeInv, ThreadInv, BirthInv, WaitInv
<1>7. CASE JoinFiber
  BY <1>7 DEF JoinFiber, LifeInv, ThreadInv, BirthInv, WaitInv
<1> QED BY <1>1, <1>2, <1>3, <1>4, <1>5, <1>6, <1>7 DEF AsyncMainStep

LEMMA RouterKeepsLife ==
  ASSUME AsyncTypeOK, LifeInv,
         LaunchFiber \/ AssignFiber \/ RouterWaits \/ RouterEnds
  PROVE  LifeInv'
<1> USE ThreadNames
<1>0. ControlTypeOK
  BY TypeParts
<1>1. CASE LaunchFiber
  BY <1>0, <1>1 DEF LaunchFiber, ControlTypeOK, LifeInv, ThreadInv, BirthInv,
     WaitInv, Clients
<1>2. CASE AssignFiber
  BY <1>0, <1>2 DEF AssignFiber, ControlTypeOK, LifeInv, ThreadInv, BirthInv,
     WaitInv, Clients
<1>3. CASE RouterWaits
  BY <1>3 DEF RouterWaits, LifeInv, ThreadInv, BirthInv, WaitInv
<1>4. CASE RouterEnds
  BY <1>4 DEF RouterEnds, FiberRuns, LifeInv, ThreadInv, BirthInv, WaitInv
<1> QED BY <1>1, <1>2, <1>3, <1>4

LEMMA PacketsKeepLife ==
  ASSUME AsyncTypeOK, Holds, LifeInv, RouterPop \/ RouterPush \/ Write \/ Read
  PROVE  LifeInv'
<1> USE ThreadNames
<1>1. UNCHANGED <<mainpc, threadpc, f, fiber>>
  BY DEF RouterPop, RouterPush, Write, Read
<1>2. \A t \in Threads : counter[t] = MessageLength => counter'[t] = MessageLength
  <2> SUFFICES ASSUME NEW u \in Threads, counter[u] = MessageLength
               PROVE  counter'[u] = MessageLength
    OBVIOUS
  <2>1. \/ counter' = counter
        \/ \E t \in Threads : /\ counter[t] < MessageLength
                              /\ counter' = [counter EXCEPT ![t] = @ + 1]
    BY DEF RouterPop, RouterPush, Pushes, Write, Read, Holds
  <2>2. counter \in [Threads -> 0 .. MessageLength]
    BY DEF AsyncTypeOK
  <2> QED BY <2>1, <2>2, CountUp, AsyncAssumption
<1> QED BY <1>1, <1>2 DEF LifeInv, ThreadInv, BirthInv, WaitInv

LEMMA LifeStep ==
  ASSUME AsyncTypeOK, Holds, LifeInv, [AsyncNext]_asyncVars
  PROVE  LifeInv'
<1>1. ASSUME NEW t \in Clients, ThreadReturns(t)
      PROVE  LifeInv'
  BY <1>1, ThreadNames, TypeParts DEF ThreadReturns, ControlTypeOK, LifeInv,
     ThreadInv, BirthInv, WaitInv, Clients
<1>2. CASE UNCHANGED asyncVars
  BY <1>2 DEF asyncVars, LifeInv, ThreadInv, BirthInv, WaitInv
<1> QED BY <1>1, <1>2, Steps, MainKeepsLife, RouterKeepsLife, PacketsKeepLife

(* Threads start and end in the order main() launches and collects them,   *)
(* and none ends its loop before its last packet.                          *)
THEOREM LifeInvariant == AsyncSpec => []LifeInv
<1>1. AsyncInit => LifeInv
  BY ThreadNames DEF AsyncInit, LifeInv, ThreadInv, BirthInv, WaitInv
<1>2. AsyncTypeOK /\ Holds /\ LifeInv /\ [AsyncNext]_asyncVars => LifeInv'
  BY LifeStep
<1> QED BY <1>1, <1>2, AsyncTypeCorrect, PTL DEF AsyncSpec

-----------------------------------------------------------------------------
(* The end of the program. *)

(* When both clients are done everything has passed.                       *)
LEMMA AllPassed ==
  ASSUME DataTypeOK, PacketInv,
         counter["producer"] = MessageLength, counter["consumer"] = MessageLength
  PROVE  /\ counter["router"] = MessageLength
         /\ held = << >> /\ ingress = << >> /\ egress = << >>
<1> DEFINE p == counter["producer"]
           r == counter["router"]
           c == counter["consumer"]
           h == Len(held)
           n == Len(ingress)
           e == Len(egress)
<1>1. p \in Nat /\ r \in Nat /\ c \in Nat /\ h \in Nat /\ n \in Nat /\ e \in Nat
  BY Numbers
<1>2. p = r + h + n /\ r = c + e /\ p = c
  BY DEF PacketInv, CountInv
<1> HIDE DEF p, r, c, h, n, e
<1>3. r = c /\ h = 0 /\ n = 0 /\ e = 0
  BY ONLY <1>1, <1>2
<1> QED BY <1>3, Numbers DEF r, c, h, n, e

(* ~router() returns only when the router fiber, its thread and the        *)
(* clients have ended, and by then no packet is left in the channels.      *)
THEOREM AsyncShutsDown == AsyncSpec => []ShutDown
<1>1. AsyncTypeOK /\ PacketInv /\ LifeInv => ShutDown
  <2> SUFFICES ASSUME AsyncTypeOK, PacketInv, LifeInv,
                      mainpc \in {"get router", "end"}
               PROVE  /\ ingress = << >> /\ held = << >> /\ egress = << >>
                      /\ mainpc = "end" => /\ fiber = "ended"
                                           /\ \A t \in Threads : threadpc[t] = "returned"
    BY DEF ShutDown
  <2>1. /\ threadpc["producer"] = "returned" /\ threadpc["consumer"] = "returned"
        /\ fiber = "ended" /\ (mainpc = "end" => threadpc["router"] = "returned")
    BY DEF LifeInv, WaitInv
  <2>2. counter["producer"] = MessageLength /\ counter["consumer"] = MessageLength
    BY <2>1 DEF LifeInv, ThreadInv, Clients
  <2> QED BY <2>1, <2>2, AllPassed, TypeParts DEF Threads
<1> QED BY <1>1, AsyncTypeCorrect, PacketInvariant, LifeInvariant, PTL

-----------------------------------------------------------------------------
(* Nobody waits for ever. *)

(* What is left to do when the producer, which has written p packets, and  *)
(* the consumer, which has read c, wait for the other side or are done,    *)
(* and so does or is the router fiber, at r. h is what it holds, n and e   *)
(* what ingress and egress do.                                             *)
Stuck(p, c, r, h, n, e) ==
  /\ p = MessageLength \/ n = Capacity - 1
  /\ c = MessageLength \/ e = 0
  /\ r = MessageLength \/ (h = 0 /\ n = 0) \/ e = Capacity - 1

(* Then everybody is done: the channels have room for a packet at least.   *)
LEMMA AllDone ==
  ASSUME NEW p \in Nat, NEW c \in Nat, NEW r \in Nat,
         NEW h \in Nat, NEW n \in Nat, NEW e \in Nat,
         p <= MessageLength, r <= MessageLength, c <= MessageLength,
         p = r + h + n, r = c + e, Stuck(p, c, r, h, n, e)
  PROVE  p = MessageLength /\ c = MessageLength
BY AsyncAssumption DEF Stuck

(* Once the thread of the router has returned, the clients and the fiber   *)
(* that wait have nothing left to do.                                      *)
LEMMA WaitingMeansDone ==
  ASSUME AsyncTypeOK, PacketInv, LifeInv, threadpc["router"] = "returned", FiberWaits,
         \A t \in Clients : threadpc[t] # "unborn" /\ ClientWaits(t)
  PROVE  \A t \in Clients : threadpc[t] = "returned"
<1> USE ThreadNames
<1>1. DataTypeOK
  BY TypeParts
<1>2. counter["producer"] = MessageLength \/ Len(ingress) = Capacity - 1
  <2>1. threadpc["producer"] = "returned" => counter["producer"] = MessageLength
    BY DEF LifeInv, ThreadInv, Clients
  <2>2. threadpc["producer"] # "returned" => Len(ingress) >= Capacity - 1
    BY DEF ClientWaits, Clients, In!Full, In!Room
  <2> QED BY <1>1, <2>1, <2>2, Numbers, AsyncAssumption DEF DataTypeOK
<1>3. counter["consumer"] = MessageLength \/ Len(egress) = 0
  <2>1. threadpc["consumer"] = "returned" => counter["consumer"] = MessageLength
    BY DEF LifeInv, ThreadInv, Clients
  <2>2. threadpc["consumer"] # "returned" => egress = << >>
    BY DEF ClientWaits, Clients, Out!Empty
  <2> QED BY <1>1, <2>1, <2>2, Numbers
<1>4. \/ counter["router"] = MessageLength
      \/ Len(held) = 0 /\ Len(ingress) = 0
      \/ Len(egress) = Capacity - 1
  <2>1. fiber # "none"
    BY DEF LifeInv, ThreadInv
  <2>2. fiber = "ended" => counter["router"] = MessageLength
    BY DEF LifeInv, ThreadInv
  <2>3. fiber = "waiting" => \/ held = << >> /\ ingress = << >>
                             \/ Len(egress) >= Capacity - 1
    BY DEF FiberWaits, Pops, Pushes, In!Empty, Out!Full, Out!Room
  <2>4. Len(egress) >= Capacity - 1 => Len(egress) = Capacity - 1
    <3>1. Len(egress) \in Nat /\ Len(egress) <= Capacity - 1 /\ Capacity \in Nat
      BY <1>1, Numbers, AsyncAssumption DEF DataTypeOK
    <3> QED BY ONLY <3>1
  <2> QED BY <1>1, <2>1, <2>2, <2>3, <2>4, Numbers DEF FiberWaits
<1>5. counter["producer"] = MessageLength /\ counter["consumer"] = MessageLength
  <2>1. Stuck(counter["producer"], counter["consumer"], counter["router"],
              Len(held), Len(ingress), Len(egress))
    BY <1>2, <1>3, <1>4 DEF Stuck
  <2>2. /\ counter["producer"] = counter["router"] + Len(held) + Len(ingress)
        /\ counter["router"] = counter["consumer"] + Len(egress)
    BY DEF PacketInv, CountInv
  <2>3. /\ counter["producer"] \in Nat /\ counter["producer"] <= MessageLength
        /\ counter["router"] \in Nat /\ counter["router"] <= MessageLength
        /\ counter["consumer"] \in Nat /\ counter["consumer"] <= MessageLength
        /\ Len(held) \in Nat /\ Len(ingress) \in Nat /\ Len(egress) \in Nat
    BY <1>1, Numbers
  <2> QED BY ONLY <2>1, <2>2, <2>3, AllDone
<1> QED BY <1>5, AsyncAssumption DEF ClientWaits, Clients

(* main(), the clients, the thread of the router and its fiber never wait  *)
(* all at once: there is always somebody who can go on, until the program  *)
(* is done.                                                                *)
THEOREM AsyncNeverDeadlocks == AsyncSpec => []AsyncNoDeadlock
<1>1. AsyncTypeOK /\ PacketInv /\ LifeInv => AsyncNoDeadlock
  <2> SUFFICES ASSUME AsyncTypeOK, PacketInv, LifeInv, MainWaits,
                      RouterThreadWaits, FiberWaits,
                      \A t \in Clients : ClientWaits(t)
               PROVE  FALSE
    BY DEF AsyncNoDeadlock
  <2>1. /\ mainpc \in {"get producer", "get consumer", "join", "get router"}
        /\ \A t \in Threads : threadpc[t] # "unborn"
    BY DEF MainWaits, LifeInv, BirthInv, Threads
  <2>2. threadpc["router"] = "returned"
    BY <2>1, ThreadNames DEF RouterThreadWaits, FiberWaits
  <2>3. \A t \in Clients : threadpc[t] = "returned"
    BY <2>1, <2>2, WaitingMeansDone, ThreadNames
  <2>4. mainpc = "join" /\ f /\ fiber # "ended"
    BY <2>2, <2>3 DEF MainWaits, Clients
  <2>5. counter["router"] = MessageLength /\ held = << >>
    BY <2>3, AllPassed, TypeParts DEF LifeInv, ThreadInv, Clients
  <2>6. ~Pops /\ ~Pushes
    BY <2>5, AsyncAssumption DEF Pops, Pushes
  <2> QED BY <2>2, <2>4, <2>6 DEF FiberWaits, LifeInv, ThreadInv
<1> QED BY <1>1, AsyncTypeCorrect, PacketInvariant, LifeInvariant, PTL
=============================================================================
