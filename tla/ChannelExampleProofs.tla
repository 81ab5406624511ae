------------------------ MODULE ChannelExampleProofs ------------------------
(***************************************************************************)
(* Proofs about boost_fiber.cpp, for any capacity and message length: no   *)
(* assertion fails, the fibers start in the order main() wants, and the    *)
(* one thread never runs out of contexts to run.                           *)
(***************************************************************************)
EXTENDS ChannelExample, SequenceTheorems, TLAPS

-----------------------------------------------------------------------------
(* The life of the program, phase by phase. *)

(* main() is alone and tests the channel. *)
Testing ==
  /\ active = "main" /\ ready = << >> /\ blocked = {}
  /\ pc["main"] \in {"test push", "test pop", "receiver"}
  /\ pc["receiver"] = "none" /\ pc["sender"] = "none"
  /\ index["receiver"] = 0 /\ index["sender"] = 0
  /\ IF pc["main"] = "test pop"
     THEN index["main"] < message_length /\ channel = <<10 + index["main"]>>
     ELSE channel = << >>

(* The receiver has the thread, main() waits behind it. *)
ReceiverStarts ==
  /\ active = "receiver" /\ ready = <<"main">> /\ blocked = {}
  /\ pc["main"] = "sender" /\ pc["sender"] = "none" /\ pc["receiver"] = "run"

(* The receiver waits for its first message, or there is none. *)
ReceiverSettled ==
  \/ pc["receiver"] = "ended" /\ "receiver" \notin blocked
  \/ pc["receiver"] = "run" /\ "receiver" \in blocked

(* main() goes on behind the receiver and launches the sender. *)
SenderStarts ==
  /\ active = "main" /\ blocked \subseteq {"receiver"} /\ ReceiverSettled
  /\ \/ /\ pc["main"] = "sender" /\ pc["sender"] = "none" /\ ready = << >>
     \/ /\ pc["main"] \in {"sleep", "join sender"} /\ pc["sender"] = "run"
        /\ ready = <<"sender">>

(* main() has joined the sender, and the fibers pass the messages on: the  *)
(* sender has the thread...                                                *)
Sending ==
  /\ active = "sender" /\ pc["main"] = "join sender" /\ pc["sender"] = "run"
  /\ "main" \in blocked /\ blocked \subseteq {"main", "receiver"}
  /\ \/ ReceiverSettled /\ ready = << >>
     \/ /\ pc["receiver"] = "run" /\ "receiver" \notin blocked
        /\ ready = <<"receiver">>

(* ... or the receiver, and the sender waits or is ready...                *)
Receiving ==
  /\ active = "receiver" /\ pc["main"] = "join sender"
  /\ pc["sender"] = "run" /\ pc["receiver"] = "run"
  /\ \/ blocked = {"main", "sender"} /\ ready = << >>
     \/ blocked = {"main"} /\ ready = <<"sender">>

(* ... or has ended, with everything the receiver still has to read in the *)
(* channel.                                                                *)
Draining ==
  /\ active = "receiver" /\ ready = <<"main">> /\ blocked = {}
  /\ pc["main"] = "join sender"
  /\ pc["sender"] = "ended" /\ pc["receiver"] = "run"

(* Both fibers have ended. *)
Joining ==
  /\ active = "main" /\ ready = << >> /\ blocked = {}
  /\ pc["main"] \in {"join sender", "join receiver", "end"}
  /\ pc["sender"] = "ended" /\ pc["receiver"] = "ended"

(* The channel holds what has been sent and not received yet, in order. *)
ChannelInv ==
  /\ Len(channel) = index["sender"] - index["receiver"]
  /\ \A k \in DOMAIN channel : channel[k] = index["receiver"] + k - 1

(* How far the fibers are, and what they wait for. *)
ProgressInv ==
  /\ pc["sender"] = "none" => index["sender"] = 0
  /\ \A f \in {"receiver", "sender"} : pc[f] = "ended" => index[f] = message_length
  /\ "receiver" \in blocked => channel = << >> /\ index["receiver"] < message_length
  /\ "sender" \in blocked => C!Full /\ index["sender"] < message_length

Passing ==
  /\ \/ ReceiverStarts \/ SenderStarts \/ Sending \/ Receiving \/ Draining
     \/ Joining
  /\ ChannelInv /\ ProgressInv

(* The inductive invariant. *)
ExampleInv == ~failed /\ (Testing \/ Passing)

-----------------------------------------------------------------------------
(* Short queues. *)

(* The first of one or two ready contexts.                                 *)
LEMMA ShortQueues ==
  /\ \A x : Append(<< >>, x) = <<x>> /\ Head(<<x>>) = x /\ Tail(<<x>>) = << >>
  /\ \A x, y : /\ Append(<<x>>, y) = <<x, y>>
              /\ Head(<<x, y>>) = x /\ Tail(<<x, y>>) = <<y>>
  /\ \A x, y : <<x>> # << >> /\ <<x, y>> # << >>
<1>1. \A x : Append(<< >>, x) = <<x>> /\ Head(<<x>>) = x /\ Tail(<<x>>) = << >>
  OBVIOUS
<1>2. \A x, y : Append(<<x>>, y) = <<x, y>>
  <2> SUFFICES ASSUME NEW x, NEW y
               PROVE  Append(<<x>>, y) = <<x, y>>
    OBVIOUS
  <2> DEFINE s == Append(<<x>>, y)
             r == <<x, y>>
  <2>1. <<x>> \in Seq({x, y}) /\ Len(<<x>>) = 1 /\ <<x>>[1] = x
    OBVIOUS
  <2>2. s \in Seq({x, y}) /\ Len(s) = 2 /\ s[1] = x /\ s[2] = y
    BY <2>1, AppendProperties
  <2>3. r \in Seq({x, y}) /\ Len(r) = 2 /\ r[1] = x /\ r[2] = y
    OBVIOUS
  <2> HIDE DEF s, r
  <2>4. \A k \in 1 .. Len(s) : s[k] = r[k]
    BY <2>2, <2>3
  <2>5. s = r
    BY <2>2, <2>3, <2>4, SeqEqual
  <2> QED BY <2>5 DEF s, r
<1>3. \A x, y : Head(<<x, y>>) = x /\ Tail(<<x, y>>) = <<y>>
  OBVIOUS
<1>4. \A x, y : <<x>> # << >> /\ <<x, y>> # << >>
  OBVIOUS
<1> QED BY <1>1, <1>2, <1>3, <1>4

(* A push at the end of the channel, and a pop of its head.                *)
LEMMA PushEnd ==
  ASSUME capacity \in Nat, channel \in Seq(Nat), NEW n \in Nat, C!Push(n)
  PROVE  /\ Len(channel) < C!Room
         /\ channel' \in Seq(Nat) /\ Len(channel') = Len(channel) + 1
         /\ \A k \in 1 .. Len(channel) : channel'[k] = channel[k]
         /\ channel'[Len(channel) + 1] = n
<1>1. Len(channel) < C!Room /\ channel' = Append(channel, n)
  BY LenProperties DEF C!Push, C!Full, C!Room
<1> QED BY <1>1, AppendProperties

LEMMA PopHead ==
  ASSUME channel \in Seq(Nat), NEW x, C!ValuePop(x)
  PROVE  /\ channel # << >> /\ x = channel[1]
         /\ channel' \in Seq(Nat) /\ Len(channel') = Len(channel) - 1
         /\ \A k \in 1 .. Len(channel) - 1 : channel'[k] = channel[k + 1]
<1>1. channel # << >> /\ x = Head(channel) /\ channel' = Tail(channel)
  BY DEF C!ValuePop, C!Empty
<1> QED BY <1>1, HeadTailProperties

-----------------------------------------------------------------------------
(* Types. *)

SchedulingTypeOK ==
  /\ active \in Contexts \cup {"dispatcher"}
  /\ ready \in Seq(Contexts) /\ blocked \subseteq Contexts

ChannelTypeOK == channel \in Seq(Nat) /\ Len(channel) <= C!Room

(* The scheduler of the thread keeps the types of what it writes.          *)
LEMMA ResumeType ==
  ASSUME NEW queue \in Seq(Contexts), Resume(queue)
  PROVE  active' \in Contexts \cup {"dispatcher"} /\ ready' \in Seq(Contexts)
<1>1. CASE queue = << >>
  BY <1>1, EmptySeq DEF Resume
<1>2. CASE queue # << >>
  BY <1>2, HeadTailProperties DEF Resume
<1> QED BY <1>1, <1>2

LEMMA SchedulerType ==
  ASSUME SchedulingTypeOK, NEW ctx \in Contexts
  PROVE  /\ Woken(ctx) \in Seq(Contexts)
         /\ Wake(ctx) => SchedulingTypeOK'
         /\ active \in Contexts /\ Wait => SchedulingTypeOK'
<1>1. Woken(ctx) \in Seq(Contexts)
  BY AppendProperties DEF SchedulingTypeOK, Woken
<1>2. Wake(ctx) => SchedulingTypeOK'
  BY <1>1 DEF SchedulingTypeOK, Wake
<1>3. active \in Contexts /\ Wait => SchedulingTypeOK'
  BY ResumeType DEF SchedulingTypeOK, Wait
<1> QED BY <1>1, <1>2, <1>3

(* So do the operations of the channel.                                    *)
LEMMA ChannelType ==
  ASSUME capacity \in Nat, capacity' = capacity, ChannelTypeOK, SchedulingTypeOK
  PROVE  /\ \A n \in Nat : Push(n) => ChannelTypeOK' /\ SchedulingTypeOK'
         /\ \A x : ValuePop(x) => ChannelTypeOK' /\ SchedulingTypeOK'
         /\ active \in Contexts /\ (PushWaits \/ ValuePopWaits) =>
              ChannelTypeOK' /\ SchedulingTypeOK'
<1> USE DEF ChannelTypeOK, C!Room
<1>a. Len(channel) \in Nat
  BY LenProperties
<1>1. ASSUME NEW n \in Nat, Push(n)
      PROVE  ChannelTypeOK' /\ SchedulingTypeOK'
  BY <1>1, <1>a, PushEnd, SchedulerType DEF Push, Contexts
<1>2. ASSUME NEW x, ValuePop(x)
      PROVE  ChannelTypeOK' /\ SchedulingTypeOK'
  BY <1>2, <1>a, PopHead, SchedulerType DEF ValuePop, Contexts
<1>3. ASSUME active \in Contexts, PushWaits \/ ValuePopWaits
      PROVE  ChannelTypeOK' /\ SchedulingTypeOK'
  BY <1>3, SchedulerType DEF PushWaits, ValuePopWaits, Contexts
<1> QED BY <1>1, <1>2, <1>3

(* What the types say of the numbers and of the scheduler. *)
LEMMA TypeFacts ==
  ASSUME ExampleTypeOK
  PROVE  /\ capacity \in Nat /\ capacity >= 2 /\ message_length \in Nat
         /\ \A ctx \in Contexts : index[ctx] \in Nat /\ index[ctx] <= message_length
         /\ ChannelTypeOK /\ SchedulingTypeOK
         /\ "main" \in Contexts /\ "receiver" \in Contexts
         /\ "sender" \in Contexts
<1>1. capacity \in Nat /\ capacity >= 2 /\ message_length \in Nat
  <2>1. capacity \in Capacities /\ message_length \in Lengths
    BY DEF ExampleTypeOK
  <2> QED BY <2>1, ExampleAssumption
<1>2. \A ctx \in Contexts : index[ctx] \in Nat /\ index[ctx] <= message_length
  <2>1. \A ctx \in Contexts : index[ctx] \in 0 .. message_length
    BY DEF ExampleTypeOK
  <2> QED BY <1>1, <2>1
<1>3. ChannelTypeOK /\ SchedulingTypeOK
  BY DEF ExampleTypeOK, ChannelTypeOK, SchedulingTypeOK
<1> QED BY <1>1, <1>2, <1>3 DEF Contexts

(* At most one loop counts one of its turns. *)
Counts ==
  \/ index' = index
  \/ \E ctx \in Contexts : index[ctx] < message_length /\ index' = [index EXCEPT ![ctx] = @ + 1]

LEMMA CountsType ==
  ASSUME ExampleTypeOK, Counts
  PROVE  index' \in [Contexts -> 0 .. message_length]
<1>1. /\ message_length \in Nat /\ index \in [Contexts -> 0 .. message_length]
      /\ \A ctx \in Contexts : index[ctx] \in Nat
  BY TypeFacts DEF ExampleTypeOK
<1>2. ASSUME NEW ctx \in Contexts, index[ctx] < message_length,
             index' = [index EXCEPT ![ctx] = @ + 1]
      PROVE  index' \in [Contexts -> 0 .. message_length]
  <2>1. index[ctx] + 1 \in 0 .. message_length
    BY <1>1, <1>2
  <2> QED BY <1>1, <1>2, <2>1
<1> QED BY <1>1, <1>2 DEF Counts

(* What the steps leave to be shown of ExampleTypeOK. *)
LEMMA TypeStep ==
  ASSUME ExampleTypeOK, UNCHANGED setup, SchedulingTypeOK', ChannelTypeOK',
         \/ pc' = pc
         \/ \E ctx \in Contexts, where \in {"test push", "test pop", "receiver",
               "sender", "sleep", "join sender", "join receiver", "end",
               "ended"} : GoTo(ctx, where)
         \/ \E where \in {"sender", "sleep"}, f \in {"receiver", "sender"} :
               pc' = [pc EXCEPT !["main"] = where, ![f] = "run"],
         Counts,
         failed' \in BOOLEAN
  PROVE  ExampleTypeOK'
<1> USE DEF ExampleTypeOK
<1>1. message_length' = message_length
  BY DEF setup
<1>2. index' \in [Contexts -> 0 .. message_length']
  BY <1>1, CountsType
<1>3. pc' \in [Contexts -> {"test push", "test pop", "receiver", "sender",
                           "sleep", "join sender", "join receiver", "end",
                           "none", "run", "ended"}]
  <2>1. CASE \E ctx \in Contexts, where \in {"test push", "test pop",
               "receiver", "sender", "sleep", "join sender", "join receiver",
               "end", "ended"} : GoTo(ctx, where)
    BY <2>1 DEF GoTo
  <2>2. CASE \E where \in {"sender", "sleep"}, f \in {"receiver", "sender"} :
               pc' = [pc EXCEPT !["main"] = where, ![f] = "run"]
    BY <2>2 DEF Contexts
  <2> QED BY <2>1, <2>2
<1> QED BY <1>2, <1>3 DEF setup, SchedulingTypeOK, ChannelTypeOK

(* The steps of main() keep the types...                                   *)
LEMMA MainStepType ==
  ASSUME ExampleTypeOK, ExampleInv, ExampleMainStep
  PROVE  ExampleTypeOK'
<1>a. /\ capacity \in Nat /\ index["main"] \in Nat /\ message_length \in Nat
      /\ ChannelTypeOK /\ SchedulingTypeOK /\ "main" \in Contexts
  BY TypeFacts
<1>b. UNCHANGED setup
  BY DEF ExampleMainStep, TestPush, TestPop, TestDone, LaunchReceiver, LaunchSender,
         Sleep, JoinSender, JoinReceiver, Join
<1>c. capacity' = capacity
  BY <1>b DEF setup
<1>1. CASE TestPush
  <2>1. ChannelTypeOK' /\ SchedulingTypeOK'
    <3>1. 10 + index["main"] \in Nat
      BY <1>a
    <3>2. Push(10 + index["main"])
      BY <1>1 DEF TestPush
    <3> QED BY <1>a, <1>c, <3>1, <3>2, ChannelType
  <2> QED BY <1>1, <1>a, <1>b, <2>1, TypeStep DEF TestPush, Counts, ExampleTypeOK
<1>2. CASE TestPop
  <2>1. ChannelTypeOK' /\ SchedulingTypeOK'
    BY <1>a, <1>c, <1>2, ChannelType DEF TestPop
  <2>2. At("main", "test pop")
    BY <1>2 DEF TestPop
  <2>3. index["main"] < message_length
    BY <2>2 DEF At, ExampleInv, Testing, Passing, ReceiverStarts, SenderStarts,
                Sending, Receiving, Draining, Joining
  <2>4. Counts
    BY <1>2, <1>a, <2>3 DEF TestPop, Counts
  <2>5. failed' \in BOOLEAN /\ GoTo("main", "test push")
    BY <1>2 DEF TestPop
  <2> QED BY <1>a, <1>b, <2>1, <2>4, <2>5, TypeStep
<1>3. CASE TestDone \/ Sleep
  <2>1. ChannelTypeOK' /\ SchedulingTypeOK'
    BY <1>a, <1>c, <1>3
       DEF TestDone, Sleep, ChannelTypeOK, SchedulingTypeOK, scheduling, C!Room
  <2> QED
    BY <1>3, <1>a, <1>b, <2>1, TypeStep DEF TestDone, Sleep, Counts, ExampleTypeOK
<1>4. CASE LaunchReceiver \/ LaunchSender
  <2>1. ready' \in Seq(Contexts)
    <3>1. /\ "main" \in Contexts /\ "sender" \in Contexts
          /\ ready \in Seq(Contexts)
      BY <1>a DEF Contexts, SchedulingTypeOK
    <3>2. /\ Append(ready, "main") \in Seq(Contexts)
          /\ Append(ready, "sender") \in Seq(Contexts)
      BY <3>1, AppendProperties
    <3> QED BY <1>4, <3>2 DEF LaunchReceiver, LaunchSender
  <2>2. ChannelTypeOK' /\ SchedulingTypeOK'
    BY <1>a, <1>c, <1>4, <2>1 DEF LaunchReceiver, LaunchSender, ChannelTypeOK,
                                SchedulingTypeOK, Contexts, C!Room
  <2> QED
    BY <1>4, <1>b, <2>2, TypeStep
       DEF LaunchReceiver, LaunchSender, Counts, ExampleTypeOK
<1>5. CASE JoinSender \/ JoinReceiver
  <2>1. /\ channel' = channel /\ index' = index /\ failed' = failed
        /\ UNCHANGED scheduling \/ (active \in Contexts /\ Wait)
        /\ pc' = pc \/ GoTo("main", "join receiver") \/ GoTo("main", "end")
    <3>1. ASSUME NEW f \in Contexts, NEW next, Join(f, next)
          PROVE  /\ channel' = channel /\ index' = index /\ failed' = failed
                 /\ UNCHANGED scheduling \/ (active \in Contexts /\ Wait)
                 /\ pc' = pc \/ GoTo("main", next)
      <4>1. active \in Contexts
        BY <3>1, <1>a DEF Join, At
      <4>2. channel' = channel /\ index' = index /\ failed' = failed
        BY <3>1 DEF Join
      <4>3. \/ GoTo("main", next) /\ UNCHANGED scheduling
            \/ Wait /\ UNCHANGED pc
        BY <3>1, Zenon DEF Join
      <4> QED BY <4>1, <4>2, <4>3
    <3> QED BY <1>5, <3>1 DEF JoinSender, JoinReceiver, Contexts
  <2>2. SchedulingTypeOK'
    BY <2>1, <1>a, SchedulerType DEF SchedulingTypeOK, scheduling
  <2>3. ChannelTypeOK'
    BY <2>1, <1>a, <1>c DEF ChannelTypeOK, C!Room
  <2> QED BY <2>1, <1>a, <1>b, <2>2, <2>3, TypeStep DEF Counts, ExampleTypeOK
<1> QED BY <1>1, <1>2, <1>3, <1>4, <1>5 DEF ExampleMainStep

(* ... and those of the fibers.                                            *)
LEMMA FiberStepType ==
  ASSUME ExampleTypeOK, FiberStep
  PROVE  ExampleTypeOK'
<1>a. /\ capacity \in Nat /\ message_length \in Nat
      /\ ChannelTypeOK /\ SchedulingTypeOK
      /\ \A ctx \in Contexts : index[ctx] \in Nat
      /\ "main" \in Contexts /\ "receiver" \in Contexts /\ "sender" \in Contexts
  BY TypeFacts
<1>b. UNCHANGED setup /\ active \in Contexts
  BY <1>a DEF FiberStep, Receive, Send, FiberEnds, At
<1>c. capacity' = capacity
  BY <1>b DEF setup
<1>1. CASE Receive
  <2>1. ChannelTypeOK' /\ SchedulingTypeOK'
    BY <1>a, <1>b, <1>c, <1>1, ChannelType DEF Receive
  <2> QED
    BY <1>1, <1>a, <1>b, <2>1, TypeStep DEF Receive, MoreMessages, Counts, ExampleTypeOK
<1>2. CASE Send
  <2>1. ChannelTypeOK' /\ SchedulingTypeOK'
    BY <1>a, <1>b, <1>c, <1>2, ChannelType DEF Send
  <2> QED BY <1>2, <1>a, <1>b, <2>1, TypeStep DEF Send, MoreMessages, Counts, ExampleTypeOK
<1>3. ASSUME NEW f \in {"receiver", "sender"}, FiberEnds(f)
      PROVE  ExampleTypeOK'
  <2>1. Woken("main") \in Seq(Contexts) /\ ready \in Seq(Contexts)
    BY <1>a, SchedulerType DEF SchedulingTypeOK
  <2>2. SchedulingTypeOK'
    BY <1>3, <1>a, <2>1, ResumeType DEF FiberEnds, SchedulingTypeOK
  <2>3. ChannelTypeOK'
    BY <1>3, <1>a, <1>c DEF FiberEnds, ChannelTypeOK, C!Room
  <2> QED BY <1>3, <1>a, <1>b, <2>2, <2>3, TypeStep DEF FiberEnds, Counts, ExampleTypeOK
<1> QED BY <1>1, <1>2, <1>3 DEF FiberStep

-----------------------------------------------------------------------------
(* The phases. *)

(* What an operation of the scheduler does to a short ready queue.         *)
LEMMA ResumeShort ==
  /\ Resume(<< >>) => active' = "dispatcher" /\ ready' = << >>
  /\ \A x : Resume(<<x>>) => active' = x /\ ready' = << >>
  /\ \A x, y : Resume(<<x, y>>) => active' = x /\ ready' = <<y>>
BY ShortQueues DEF Resume

(* main() alone.                                                           *)
LEMMA TestingStep ==
  ASSUME ExampleTypeOK, ExampleInv, Testing, ExampleNext
  PROVE  ExampleInv'
<1>a. /\ message_length \in Nat /\ index["main"] \in Nat /\ channel \in Seq(Nat)
      /\ index \in [Contexts -> 0 .. message_length]
      /\ pc["main"] # "end"
  BY TypeFacts DEF ChannelTypeOK, ExampleTypeOK, Testing
<1>b. \A x : Woken(x) = << >>
  BY DEF Testing, Woken
<1>1. CASE TestPush
  <2>1. /\ pc["main"] = "test push" /\ ~failed /\ index["main"] < message_length
        /\ C!Push(10 + index["main"]) /\ Wake("receiver")
        /\ pc' = [pc EXCEPT !["main"] = "test pop"]
        /\ index' = index /\ failed' = failed /\ message_length' = message_length
    BY <1>1 DEF TestPush, At, Push, GoTo, setup
  <2>2. channel' = <<10 + index["main"]>>
    BY <2>1, ShortQueues DEF C!Push, Testing
  <2>3. active' = "main" /\ ready' = << >> /\ blocked' = {}
    BY <1>b, <2>1 DEF Wake, Testing
  <2> QED BY <2>1, <2>2, <2>3, <1>a DEF Testing, ExampleInv, ExampleTypeOK, Contexts
<1>2. CASE TestPop
  <2>1. /\ pc["main"] = "test pop" /\ C!ValuePop(Head(channel))
        /\ Wake("sender") /\ failed' = (Head(channel) # 10 + index["main"])
        /\ pc' = [pc EXCEPT !["main"] = "test push"]
        /\ index' = [index EXCEPT !["main"] = @ + 1]
    BY <1>2 DEF TestPop, At, ValuePop, GoTo
  <2>2. Head(channel) = 10 + index["main"] /\ channel' = << >>
    BY <2>1, ShortQueues DEF C!ValuePop, Testing
  <2>3. active' = "main" /\ ready' = << >> /\ blocked' = {}
    BY <1>b, <2>1 DEF Wake, Testing
  <2> QED BY <2>1, <2>2, <2>3, <1>a DEF Testing, ExampleInv, ExampleTypeOK, Contexts
<1>3. CASE TestDone
  BY <1>3, <1>a
     DEF TestDone, At, GoTo, scheduling, Testing, ExampleInv, ExampleTypeOK,
         Contexts
<1>4. CASE LaunchReceiver
  <2>1. /\ pc["main"] = "receiver"
        /\ pc' = [pc EXCEPT !["main"] = "sender", !["receiver"] = "run"]
        /\ active' = "receiver" /\ ready' = Append(ready, "main")
        /\ blocked' = blocked /\ channel' = channel /\ index' = index
        /\ failed' = failed
    BY <1>4 DEF LaunchReceiver, At
  <2>2. ready' = <<"main">> /\ channel' = << >>
    BY <2>1, ShortQueues DEF Testing
  <2>3. ReceiverStarts'
    BY <2>1, <2>2 DEF Testing, ReceiverStarts, ExampleTypeOK, Contexts
  <2>4. ChannelInv' /\ ProgressInv'
    <3>1. Len(channel') = 0 /\ DOMAIN channel' = {}
      BY <2>2
    <3>2. index'["sender"] = 0 /\ index'["receiver"] = 0
      BY <2>1 DEF Testing
    <3>3. pc'["sender"] = "none" /\ pc'["receiver"] = "run" /\ blocked' = {}
      BY <2>1 DEF Testing, ExampleTypeOK, Contexts
    <3> QED BY <3>1, <3>2, <3>3 DEF ChannelInv, ProgressInv
  <2> QED BY <2>1, <2>3, <2>4 DEF ExampleInv, Passing
<1> QED
  BY <1>a, <1>1, <1>2, <1>3, <1>4
     DEF ExampleNext, ExampleMainStep, FiberStep, ExampleEnded, LaunchSender, Sleep, JoinSender,
         JoinReceiver, Join, JoinOf, Receive, Send, FiberEnds, At, Testing

(* A step of main() once the fibers pass messages: it writes no message.   *)
LEMMA MainPasses ==
  ASSUME ExampleTypeOK, ExampleInv, Passing, ExampleMainStep
  PROVE  ExampleInv'
<1>a. pc \in [Contexts -> {"test push", "test pop", "receiver", "sender",
                          "sleep", "join sender", "join receiver", "end",
                          "none", "run", "ended"}]
  BY DEF ExampleTypeOK
<1>b. active = "main" => SenderStarts \/ Joining
  BY DEF Passing, ReceiverStarts, Sending, Receiving, Draining
<1>1. CASE TestPush \/ TestPop \/ TestDone \/ LaunchReceiver
  BY <1>1, <1>b
     DEF TestPush, TestPop, TestDone, LaunchReceiver, At, SenderStarts, Joining
<1>c. ASSUME UNCHANGED <<setup, channel, index>>,
             \A f \in {"receiver", "sender"} : pc'[f] = pc[f] \/ pc'[f] = "run",
             blocked' \subseteq blocked \cup {"main"}
      PROVE  ChannelInv' /\ ProgressInv'
  <2>1. ChannelInv /\ ProgressInv
    BY DEF Passing
  <2>2. ChannelInv'
    BY <1>c, <2>1 DEF ChannelInv
  <2>3. C!Full' <=> C!Full
    BY <1>c DEF C!Full, C!Room, setup
  <2>4. message_length' = message_length
    BY <1>c DEF setup
  <2> QED BY <1>c, <2>1, <2>2, <2>3, <2>4 DEF ProgressInv
<1>2. CASE LaunchSender
  <2>1. /\ active = "main" /\ pc["main"] = "sender" /\ SenderStarts
        /\ pc' = [pc EXCEPT !["main"] = "sleep", !["sender"] = "run"]
        /\ ready' = Append(ready, "sender") /\ active' = active
        /\ blocked' = blocked /\ failed' = failed
        /\ UNCHANGED <<setup, channel, index>>
    BY <1>2, <1>b DEF LaunchSender, At, Joining
  <2>2. ready' = <<"sender">>
    BY <2>1, ShortQueues DEF SenderStarts
  <2>3. SenderStarts'
    BY <1>a, <2>1, <2>2 DEF SenderStarts, ReceiverSettled, Contexts
  <2>4. ChannelInv' /\ ProgressInv'
    BY <1>a, <1>c, <2>1 DEF Contexts
  <2> QED BY <2>1, <2>3, <2>4 DEF ExampleInv, Passing
<1>3. CASE Sleep
  <2>1. /\ active = "main" /\ pc["main"] = "sleep" /\ SenderStarts
        /\ pc' = [pc EXCEPT !["main"] = "join sender"]
        /\ ready' = ready /\ active' = active
        /\ blocked' = blocked /\ failed' = failed
        /\ UNCHANGED <<setup, channel, index>>
    BY <1>3, <1>b DEF Sleep, At, GoTo, Joining, scheduling
  <2>2. SenderStarts'
    BY <1>a, <2>1 DEF SenderStarts, ReceiverSettled, Contexts
  <2>3. ChannelInv' /\ ProgressInv'
    BY <1>a, <1>c, <2>1 DEF Contexts
  <2> QED BY <2>1, <2>2, <2>3 DEF ExampleInv, Passing
<1>4. CASE JoinSender
  <2>1. /\ active = "main" /\ pc["main"] = "join sender"
        /\ failed' = failed /\ UNCHANGED <<setup, channel, index>>
        /\ IF pc["sender"] = "ended"
           THEN GoTo("main", "join receiver") /\ UNCHANGED scheduling
           ELSE Wait /\ UNCHANGED pc
    BY <1>4 DEF JoinSender, Join, JoinOf, At
  <2>2. CASE SenderStarts
    <3>1. Resume(ready) /\ ready = <<"sender">> /\ pc' = pc
          /\ blocked' = blocked \cup {"main"} /\ pc["sender"] = "run"
      BY <2>1, <2>2 DEF SenderStarts, Wait
    <3>2. active' = "sender" /\ ready' = << >>
      BY <3>1, ResumeShort
    <3>3. Sending'
      BY <2>1, <2>2, <3>1, <3>2 DEF SenderStarts, Sending, ReceiverSettled
    <3>4. ChannelInv' /\ ProgressInv'
      BY <1>c, <2>1, <3>1
    <3> QED BY <2>1, <3>3, <3>4 DEF ExampleInv, Passing
  <2>3. CASE Joining
    <3>1. /\ pc' = [pc EXCEPT !["main"] = "join receiver"]
          /\ active' = active /\ ready' = ready /\ blocked' = blocked
      BY <2>1, <2>3 DEF Joining, GoTo, scheduling
    <3>2. Joining'
      BY <1>a, <2>3, <3>1 DEF Joining, Contexts
    <3>3. ChannelInv' /\ ProgressInv'
      BY <1>a, <1>c, <2>1, <3>1 DEF Contexts
    <3> QED BY <2>1, <3>2, <3>3 DEF ExampleInv, Passing
  <2> QED BY <1>b, <2>1, <2>2, <2>3
<1>5. CASE JoinReceiver
  <2>1. /\ active = "main" /\ pc["main"] = "join receiver" /\ Joining
        /\ failed' = failed /\ UNCHANGED <<setup, channel, index>>
        /\ IF pc["receiver"] = "ended"
           THEN GoTo("main", "end") /\ UNCHANGED scheduling
           ELSE Wait /\ UNCHANGED pc
    BY <1>5, <1>b DEF JoinReceiver, Join, JoinOf, At, SenderStarts
  <2>2. /\ pc' = [pc EXCEPT !["main"] = "end"]
        /\ active' = active /\ ready' = ready /\ blocked' = blocked
    BY <2>1 DEF Joining, GoTo, scheduling
  <2>3. Joining'
    BY <1>a, <2>1, <2>2 DEF Joining, Contexts
  <2>4. ChannelInv' /\ ProgressInv'
    BY <1>a, <1>c, <2>1, <2>2 DEF Contexts
  <2> QED BY <2>1, <2>3, <2>4 DEF ExampleInv, Passing
<1> QED BY <1>1, <1>2, <1>3, <1>4, <1>5 DEF ExampleMainStep

(* What the messages underway say of the counters. *)
LEMMA PassingFacts ==
  ASSUME ExampleTypeOK, Passing
  PROVE  /\ channel \in Seq(Nat) /\ Len(channel) \in Nat
         /\ DOMAIN channel = 1 .. Len(channel)
         /\ channel = << >> <=> Len(channel) = 0
         /\ index["receiver"] \in Nat /\ index["sender"] \in Nat
         /\ message_length \in Nat
         /\ index["receiver"] <= message_length /\ index["sender"] <= message_length
         /\ index["sender"] = index["receiver"] + Len(channel)
         /\ C!Full => channel # << >>
<1>1. /\ channel \in Seq(Nat) /\ Len(channel) \in Nat
      /\ DOMAIN channel = 1 .. Len(channel)
      /\ channel = << >> <=> Len(channel) = 0
  BY TypeFacts, LenProperties, EmptySeq DEF ChannelTypeOK
<1>2. /\ index["receiver"] \in Nat /\ index["sender"] \in Nat /\ message_length \in Nat
      /\ index["receiver"] <= message_length /\ index["sender"] <= message_length
  BY TypeFacts
<1>3. index["sender"] = index["receiver"] + Len(channel)
  BY <1>1, <1>2 DEF Passing, ChannelInv
<1>4. C!Full => channel # << >>
  BY <1>1, TypeFacts DEF C!Full, C!Room
<1> QED BY <1>1, <1>2, <1>3, <1>4

(* The steps of the receiver...                                            *)
LEMMA ReceivePasses ==
  ASSUME ExampleTypeOK, ExampleInv, Passing, Receive
  PROVE  ExampleInv'
<1>a. /\ active = "receiver" /\ pc["receiver"] = "run" /\ pc' = pc
      /\ index["receiver"] < message_length /\ UNCHANGED setup
      /\ ReceiverStarts \/ Receiving \/ Draining
      /\ ChannelInv /\ ProgressInv
      /\ "receiver" \notin blocked
  BY DEF Receive, At, MoreMessages, Passing, SenderStarts, Sending, Joining,
         ReceiverStarts, Receiving, Draining
<1>1. CASE /\ ValuePop(Head(channel))
           /\ failed' = (Head(channel) # index["receiver"])
           /\ index' = [index EXCEPT !["receiver"] = @ + 1]
  <2>1. /\ channel # << >> /\ Head(channel) = channel[1]
        /\ Len(channel') = Len(channel) - 1 /\ channel' \in Seq(Nat)
        /\ \A k \in 1 .. Len(channel) - 1 : channel'[k] = channel[k + 1]
    BY <1>1, PassingFacts, PopHead DEF ValuePop
  <2>2. channel[1] = index["receiver"]
    <3>1. 1 \in DOMAIN channel
      BY <2>1, PassingFacts
    <3>2. channel[1] = index["receiver"] + 1 - 1
      BY <1>a, <3>1 DEF ChannelInv
    <3> QED BY <3>2, PassingFacts
  <2>3. /\ index'["sender"] = index["sender"] /\ index'["receiver"] = index["receiver"] + 1
    BY <1>1 DEF ExampleTypeOK, Contexts
  <2>4. ChannelInv'
    <3>1. DOMAIN channel' = 1 .. Len(channel) - 1
      BY <2>1, LenProperties
    <3>2. \A k \in 1 .. Len(channel) - 1 :
            channel[k + 1] = index["receiver"] + (k + 1) - 1
      <4>1. \A k \in 1 .. Len(channel) - 1 : k + 1 \in DOMAIN channel
        BY PassingFacts
      <4> QED BY <1>a, <4>1 DEF ChannelInv
    <3>3. \A k \in 1 .. Len(channel) - 1 : channel'[k] = index'["receiver"] + k - 1
      BY <2>1, <2>3, <3>2, PassingFacts
    <3> QED BY <2>1, <2>3, <3>1, <3>3, PassingFacts DEF ChannelInv
  <2>5. /\ active' = "receiver" /\ blocked' = blocked \ {"sender"}
        /\ ready' = IF "sender" \in blocked THEN Append(ready, "sender") ELSE ready
    BY <1>1, <1>a DEF ValuePop, Wake, Woken
  <2>6. ProgressInv'
    BY <1>a, <2>3, <2>5 DEF ProgressInv, setup
  <2>7. CASE Receiving
    <3>1. ready' = <<"sender">> /\ blocked' = {"main"}
      BY <2>5, <2>7, ShortQueues DEF Receiving
    <3>2. Receiving'
      BY <1>a, <2>5, <2>7, <3>1 DEF Receiving
    <3> QED BY <1>1, <2>1, <2>2, <2>4, <2>6, <3>2 DEF ExampleInv, Passing
  <2>8. CASE Draining
    <3>1. Draining'
      BY <1>a, <2>5, <2>8 DEF Draining
    <3> QED BY <1>1, <2>1, <2>2, <2>4, <2>6, <3>1 DEF ExampleInv, Passing
  <2>9. ~ReceiverStarts
    BY <1>a, <2>1, PassingFacts DEF ReceiverStarts, ProgressInv
  <2> QED BY <1>a, <2>7, <2>8, <2>9
<1>2. CASE ValuePopWaits /\ UNCHANGED <<failed, index>>
  <2>1. /\ channel = << >> /\ channel' = channel /\ index' = index /\ failed' = failed
        /\ Resume(ready) /\ blocked' = blocked \cup {"receiver"}
    BY <1>2, <1>a DEF ValuePopWaits, C!Empty, Wait
  <2>2. ChannelInv' /\ ProgressInv'
    BY <1>a, <2>1, PassingFacts
       DEF ChannelInv, ProgressInv, setup, C!Full, C!Room
  <2>3. CASE ReceiverStarts
    <3>1. active' = "main" /\ ready' = << >>
      BY <2>1, <2>3, ResumeShort DEF ReceiverStarts
    <3>2. SenderStarts'
      BY <1>a, <2>1, <2>3, <3>1 DEF ReceiverStarts, SenderStarts, ReceiverSettled
    <3> QED BY <2>1, <2>2, <3>2 DEF ExampleInv, Passing
  <2>4. CASE Receiving
    <3>1. ready = <<"sender">> /\ blocked = {"main"}
      BY <1>a, <2>1, <2>4, PassingFacts DEF Receiving, ProgressInv
    <3>2. active' = "sender" /\ ready' = << >>
      BY <2>1, <3>1, ResumeShort
    <3>3. Sending'
      BY <1>a, <2>1, <2>4, <3>1, <3>2 DEF Receiving, Sending, ReceiverSettled
    <3> QED BY <2>1, <2>2, <3>3 DEF ExampleInv, Passing
  <2>5. ~Draining
    <3>1. Draining => index["sender"] = message_length
      BY <1>a DEF Draining, ProgressInv
    <3> QED BY <1>a, <2>1, <3>1, PassingFacts
  <2> QED BY <1>a, <2>3, <2>4, <2>5
<1> QED BY <1>1, <1>2 DEF Receive

(* ... of the sender...                                                    *)
LEMMA SendPasses ==
  ASSUME ExampleTypeOK, ExampleInv, Passing, Send
  PROVE  ExampleInv'
<1>a. /\ active = "sender" /\ pc["sender"] = "run" /\ pc' = pc
      /\ index["sender"] < message_length /\ UNCHANGED setup /\ failed' = failed
      /\ Sending /\ ChannelInv /\ ProgressInv
      /\ "sender" \notin blocked
  BY DEF Send, At, MoreMessages, Passing, SenderStarts, Sending, Joining,
         ReceiverStarts, Receiving, Draining
<1>1. CASE Push(index["sender"]) /\ index' = [index EXCEPT !["sender"] = @ + 1]
  <2>1. /\ Len(channel') = Len(channel) + 1 /\ channel' \in Seq(Nat)
        /\ \A k \in 1 .. Len(channel) : channel'[k] = channel[k]
        /\ channel'[Len(channel) + 1] = index["sender"]
    BY <1>1, PassingFacts, TypeFacts, PushEnd DEF Push
  <2>2. /\ index'["sender"] = index["sender"] + 1 /\ index'["receiver"] = index["receiver"]
    BY <1>1 DEF ExampleTypeOK, Contexts
  <2>3. ChannelInv'
    <3>1. DOMAIN channel' = 1 .. Len(channel) + 1
      BY <2>1, LenProperties
    <3>2. \A k \in 1 .. Len(channel) : channel[k] = index["receiver"] + k - 1
      BY <1>a, PassingFacts DEF ChannelInv
    <3>3. channel'[Len(channel) + 1] = index'["receiver"] + (Len(channel) + 1) - 1
      BY <2>1, <2>2, PassingFacts
    <3>4. \A k \in 1 .. Len(channel) + 1 :
            k \in 1 .. Len(channel) \/ k = Len(channel) + 1
      BY PassingFacts
    <3>5. \A k \in 1 .. Len(channel) + 1 : channel'[k] = index'["receiver"] + k - 1
      BY <2>1, <2>2, <3>2, <3>3, <3>4
    <3> QED BY <2>1, <2>2, <3>1, <3>5, PassingFacts DEF ChannelInv
  <2>4. /\ active' = "sender" /\ blocked' = blocked \ {"receiver"}
        /\ ready' = IF "receiver" \in blocked
                    THEN Append(ready, "receiver") ELSE ready
    BY <1>1, <1>a DEF Push, Wake, Woken
  <2>5. ProgressInv'
    BY <1>a, <2>2, <2>4 DEF ProgressInv, setup
  <2>6. Sending'
    <3>1. CASE "receiver" \in blocked
      <4>1. ready' = <<"receiver">> /\ pc["receiver"] = "run"
        BY <1>a, <2>4, <3>1, ShortQueues DEF Sending, ReceiverSettled
      <4> QED BY <1>a, <2>4, <4>1 DEF Sending
    <3>2. CASE "receiver" \notin blocked
      BY <1>a, <2>4, <3>2 DEF Sending, ReceiverSettled
    <3> QED BY <3>1, <3>2
  <2> QED BY <1>a, <2>3, <2>5, <2>6 DEF ExampleInv, Passing
<1>2. CASE PushWaits /\ UNCHANGED index
  <2>1. /\ C!Full /\ channel' = channel /\ index' = index
        /\ Resume(ready) /\ blocked' = blocked \cup {"sender"}
    BY <1>2, <1>a DEF PushWaits, Wait
  <2>2. ChannelInv' /\ ProgressInv'
    BY <1>a, <2>1, PassingFacts
       DEF ChannelInv, ProgressInv, setup, C!Full, C!Room
  <2>3. /\ ready = <<"receiver">> /\ pc["receiver"] = "run"
        /\ blocked = {"main"}
    <3>1. ~ReceiverSettled
      BY <1>a, <2>1, PassingFacts DEF ReceiverSettled, ProgressInv
    <3> QED BY <1>a, <3>1 DEF Sending
  <2>4. active' = "receiver" /\ ready' = << >>
    BY <2>1, <2>3, ResumeShort
  <2>5. Receiving'
    BY <1>a, <2>1, <2>3, <2>4 DEF Sending, Receiving
  <2> QED BY <1>a, <2>2, <2>5 DEF ExampleInv, Passing
<1> QED BY <1>1, <1>2 DEF Send

(* ... and their ends.                                                     *)
LEMMA EndPasses ==
  ASSUME ExampleTypeOK, ExampleInv, Passing,
         NEW f \in {"receiver", "sender"}, FiberEnds(f)
  PROVE  ExampleInv'
<1>a. /\ active = f /\ pc[f] = "run" /\ pc' = [pc EXCEPT ![f] = "ended"]
      /\ index[f] = message_length /\ f \notin blocked
      /\ UNCHANGED <<setup, channel, index, failed>>
      /\ IF pc["main"] = JoinOf(f)
         THEN Resume(Woken("main")) /\ blocked' = blocked \ {"main"}
         ELSE Resume(ready) /\ UNCHANGED blocked
  <2>1. /\ active = f /\ pc[f] = "run" /\ pc' = [pc EXCEPT ![f] = "ended"]
        /\ UNCHANGED <<setup, channel, index, failed>> /\ ~(index[f] < message_length)
        /\ IF pc["main"] = JoinOf(f)
           THEN Resume(Woken("main")) /\ blocked' = blocked \ {"main"}
           ELSE Resume(ready) /\ UNCHANGED blocked
    BY DEF FiberEnds, At, GoTo, MoreMessages
  <2>2. index[f] = message_length
    BY <2>1, PassingFacts
  <2>3. f \notin blocked
    BY <2>1, <2>2, PassingFacts DEF Passing, ProgressInv
  <2> QED BY <2>1, <2>2, <2>3
<1>b. /\ pc \in [Contexts -> {"test push", "test pop", "receiver", "sender",
                             "sleep", "join sender", "join receiver", "end",
                             "none", "run", "ended"}]
      /\ f \in Contexts /\ ChannelInv /\ ProgressInv
  BY DEF ExampleTypeOK, Contexts, Passing
<1>c. ASSUME blocked' \subseteq blocked
      PROVE  ChannelInv' /\ ProgressInv'
  BY <1>a, <1>b, <1>c
     DEF ChannelInv, ProgressInv, setup, C!Full, C!Room, Contexts
<1>1. CASE f = "receiver"
  <2>1. ReceiverStarts \/ Receiving \/ Draining
    BY <1>1, <1>a DEF Passing, SenderStarts, Sending, Joining
  <2>2. Resume(ready) /\ blocked' = blocked
    BY <1>1, <1>a, <2>1 DEF JoinOf, ReceiverStarts, Receiving, Draining
  <2>3. CASE ReceiverStarts
    <3>1. active' = "main" /\ ready' = << >>
      BY <2>2, <2>3, ResumeShort DEF ReceiverStarts
    <3>2. SenderStarts'
      BY <1>1, <1>a, <1>b, <2>2, <2>3, <3>1
         DEF ReceiverStarts, SenderStarts, ReceiverSettled, Contexts
    <3> QED BY <1>a, <1>c, <2>2, <3>2 DEF ExampleInv, Passing
  <2>4. CASE Receiving
    <3>1. ready = <<"sender">> /\ blocked = {"main"}
      <4>1. "sender" \in blocked => index["sender"] < message_length
        BY <1>b DEF ProgressInv
      <4>2. "sender" \notin blocked
        BY <1>1, <1>a, <4>1, PassingFacts
      <4> QED BY <2>4, <4>2 DEF Receiving
    <3>2. active' = "sender" /\ ready' = << >>
      BY <2>2, <3>1, ResumeShort
    <3>3. Sending'
      BY <1>1, <1>a, <1>b, <2>2, <2>4, <3>1, <3>2
         DEF Receiving, Sending, ReceiverSettled, Contexts
    <3> QED BY <1>a, <1>c, <2>2, <3>3 DEF ExampleInv, Passing
  <2>5. CASE Draining
    <3>1. active' = "main" /\ ready' = << >>
      BY <2>2, <2>5, ResumeShort DEF Draining
    <3>2. Joining'
      BY <1>1, <1>a, <1>b, <2>2, <2>5, <3>1 DEF Draining, Joining, Contexts
    <3> QED BY <1>a, <1>c, <2>2, <3>2 DEF ExampleInv, Passing
  <2> QED BY <2>1, <2>3, <2>4, <2>5
<1>2. CASE f = "sender"
  <2>1. Sending
    BY <1>2, <1>a DEF Passing, ReceiverStarts, SenderStarts, Receiving, Draining,
                      Joining
  <2>2. /\ Resume(Append(ready, "main")) /\ blocked' = blocked \ {"main"}
    BY <1>2, <1>a, <2>1 DEF JoinOf, Woken, Sending
  <2>3. CASE ready = << >>
    <3>1. pc["receiver"] = "ended" /\ blocked = {"main"}
      <4>1. "receiver" \in blocked =>
              channel = << >> /\ index["receiver"] < message_length
        BY <1>b DEF ProgressInv
      <4>2. "receiver" \notin blocked
        BY <1>2, <1>a, <4>1, PassingFacts
      <4> QED BY <2>1, <2>3, <4>2, ShortQueues DEF Sending, ReceiverSettled
    <3>2. active' = "main" /\ ready' = << >> /\ blocked' = {}
      BY <2>2, <2>3, <3>1, ShortQueues, ResumeShort
    <3>3. Joining'
      BY <1>2, <1>a, <1>b, <2>1, <3>1, <3>2 DEF Sending, Joining, Contexts
    <3> QED BY <1>a, <1>c, <2>2, <3>3 DEF ExampleInv, Passing
  <2>4. CASE ready = <<"receiver">>
    <3>1. pc["receiver"] = "run" /\ blocked = {"main"}
      BY <2>1, <2>4, ShortQueues DEF Sending
    <3>2. active' = "receiver" /\ ready' = <<"main">> /\ blocked' = {}
      <4>1. Resume(<<"receiver", "main">>)
        BY <2>2, <2>4, ShortQueues
      <4> QED BY <2>2, <3>1, <4>1, ResumeShort
    <3>3. Draining'
      BY <1>2, <1>a, <1>b, <2>1, <3>1, <3>2 DEF Sending, Draining, Contexts
    <3> QED BY <1>a, <1>c, <2>2, <3>3 DEF ExampleInv, Passing
  <2> QED BY <2>1, <2>3, <2>4 DEF Sending
<1> QED BY <1>1, <1>2

(* The types, and the phases of the program with what the channel holds.   *)
THEOREM ExampleInvariant == ExampleSpec => [](ExampleTypeOK /\ ExampleInv)
<1>1. ExampleInit => ExampleTypeOK /\ ExampleInv
  <2> SUFFICES ASSUME ExampleInit
               PROVE  ExampleTypeOK /\ ExampleInv
    OBVIOUS
  <2>1. capacity \in Nat /\ capacity >= 2 /\ message_length \in Nat
    <3>1. capacity \in Capacities /\ message_length \in Lengths
      BY DEF ExampleInit
    <3> QED BY <3>1, ExampleAssumption
  <2>2. << >> \in Seq(Nat) /\ << >> \in Seq(Contexts) /\ Len(<< >>) = 0
    BY EmptySeq
  <2>3. ExampleTypeOK
    <3>1. index \in [Contexts -> 0 .. message_length]
      <4>1. 0 \in 0 .. message_length
        BY <2>1
      <4>2. index = [ctx \in Contexts |-> 0]
        BY DEF ExampleInit
      <4> QED BY <4>1, <4>2
    <3>2. Len(channel) <= C!Room
      <4>1. Len(channel) = 0
        BY <2>2 DEF ExampleInit
      <4> QED BY <2>1, <4>1 DEF C!Room
    <3> QED BY <2>2, <3>1, <3>2 DEF ExampleInit, ExampleTypeOK, Contexts
  <2>4. Testing
    BY DEF ExampleInit, Testing, Contexts
  <2> QED BY <2>3, <2>4 DEF ExampleInit, ExampleInv
<1>2. ExampleTypeOK /\ ExampleInv /\ [ExampleNext]_exampleVars => (ExampleTypeOK /\ ExampleInv)'
  <2> SUFFICES ASSUME ExampleTypeOK, ExampleInv, [ExampleNext]_exampleVars
               PROVE  (ExampleTypeOK /\ ExampleInv)'
    OBVIOUS
  <2>1. CASE UNCHANGED exampleVars
    BY <2>1
       DEF exampleVars, setup, scheduling, ExampleTypeOK, ExampleInv, Testing, Passing,
           ReceiverStarts, ReceiverSettled, SenderStarts, Sending, Receiving,
           Draining, Joining, ChannelInv, ProgressInv, C!Full, C!Room
  <2>2. CASE ExampleNext /\ ~UNCHANGED exampleVars
    <3>1. ExampleMainStep \/ FiberStep
      BY <2>2 DEF ExampleNext, ExampleEnded
    <3>2. ExampleTypeOK'
      BY <3>1, MainStepType, FiberStepType
    <3>3. CASE Testing
      BY <2>2, <3>2, <3>3, TestingStep
    <3>4. CASE Passing
      BY <3>1, <3>2, <3>4, MainPasses, ReceivePasses, SendPasses, EndPasses
         DEF FiberStep
    <3> QED BY <3>3, <3>4 DEF ExampleInv
  <2> QED BY <2>1, <2>2
<1> QED BY <1>1, <1>2, PTL DEF ExampleSpec

(* No assertion of the program fails, for any capacity and any length.     *)
THEOREM AssertionsCorrect == ExampleSpec => []AssertionsHold
<1>1. ExampleInv => AssertionsHold
  BY DEF ExampleInv, AssertionsHold
<1> QED BY <1>1, ExampleInvariant, PTL

(* launch::dispatch and launch::post start the fibers in the order that    *)
(* the comments of the program announce.                                   *)
THEOREM StartOrderCorrect == ExampleSpec => []StartOrder
<1>1. ExampleInv => StartOrder
  BY DEF ExampleInv, Testing, Passing, ReceiverStarts, ReceiverSettled,
         SenderStarts, Sending, Receiving, Draining, Joining, StartOrder
<1> QED BY <1>1, ExampleInvariant, PTL

(* The one thread always has a context to run.                             *)
THEOREM ExampleNeverDeadlocks == ExampleSpec => []ExampleNoDeadlock
<1>1. ExampleInv => ExampleNoDeadlock
  BY DEF ExampleInv, Testing, Passing, ReceiverStarts, SenderStarts, Sending,
         Receiving, Draining, Joining, ExampleNoDeadlock
<1> QED BY <1>1, ExampleInvariant, PTL
=============================================================================
