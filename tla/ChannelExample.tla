--------------------------- MODULE ChannelExample ---------------------------
(***************************************************************************)
(* Boost/Fiber/boost_fiber.cpp: main() tries a buffered channel alone,     *)
(* then a sender and a receiver fiber pass messages through it. All of it  *)
(* is one thread with the round-robin scheduler of Boost.Fiber: contexts   *)
(* switch only where one waits, ends or dispatches another. Writing to     *)
(* std::cerr does none of these, so that each output is part of the step   *)
(* before or after it.                                                     *)
(***************************************************************************)
EXTENDS Integers, Sequences

CONSTANTS
  Capacities,   \* the values of capacity
  Lengths       \* the values of message_length

(* The channel takes powers of two only; all that matters here is that one *)
(* message fits.                                                           *)
ASSUME ExampleAssumption ==
  /\ Capacities \subseteq Nat \ {0, 1}
  /\ Lengths \subseteq Nat

VARIABLES
  capacity, message_length,   \* constants of the program
  channel,   \* c
  pc,        \* where each context is
  index,     \* its loop counter i
  failed,    \* an assertion has failed
  active,    \* the context that runs
  ready,     \* the ready queue
  blocked    \* the contexts that wait for the channel or in a join

Contexts == {"main", "receiver", "sender"}
setup == <<capacity, message_length>>
scheduling == <<active, ready, blocked>>
exampleVars == <<setup, channel, pc, index, failed, scheduling>>

C == INSTANCE BufferedChannel

-----------------------------------------------------------------------------
(* The scheduler of the thread. *)

(* The dispatcher takes over when no other context is ready. *)
Resume(queue) ==
  IF queue = << >>
  THEN active' = "dispatcher" /\ ready' = << >>
  ELSE active' = Head(queue) /\ ready' = Tail(queue)

(* The running context waits. *)
Wait ==
  /\ blocked' = blocked \cup {active}
  /\ Resume(ready)

(* The ready queue, after ctx has been woken if it waits. *)
Woken(ctx) == IF ctx \in blocked THEN Append(ready, ctx) ELSE ready

Wake(ctx) ==
  /\ ready' = Woken(ctx)
  /\ blocked' = blocked \ {ctx}
  /\ UNCHANGED active

At(ctx, where) == active = ctx /\ pc[ctx] = where /\ ~failed
GoTo(ctx, where) == pc' = [pc EXCEPT ![ctx] = where]

(* Wrong on purpose: push() does not wake the context that waits to pop.   *)
PushWakesNobody(value) == C!Push(value) /\ UNCHANGED scheduling

(* push() and value_pop(): they wait, to try again when woken, or wake the *)
(* context on the other end. *)
Push(value) == C!Push(value) /\ Wake("receiver")
PushWaits == C!Full /\ Wait /\ UNCHANGED channel
ValuePop(value) == C!ValuePop(value) /\ Wake("sender")
ValuePopWaits == C!Empty /\ Wait /\ UNCHANGED channel

-----------------------------------------------------------------------------
(* main() *)

(* The loop that tests the channel alone: push...                          *)
TestPush ==
  /\ At("main", "test push") /\ index["main"] < message_length
  /\ Push(10 + index["main"])
  /\ GoTo("main", "test pop")
  /\ UNCHANGED <<setup, index, failed>>

(* Wrong on purpose: the last message is not read back.                    *)
TestPopForgetsLast ==
  /\ At("main", "test pop")
  /\ IF index["main"] + 1 = message_length
     THEN UNCHANGED <<channel, scheduling, failed>>
     ELSE /\ ValuePop(Head(channel))
          /\ failed' = (Head(channel) # 10 + index["main"])
  /\ index' = [index EXCEPT !["main"] = @ + 1]
  /\ GoTo("main", "test push")
  /\ UNCHANGED setup

(* ... and pop the same value.                                             *)
TestPop ==
  /\ At("main", "test pop")
  /\ ValuePop(Head(channel))
  /\ failed' = (Head(channel) # 10 + index["main"])
  /\ index' = [index EXCEPT !["main"] = @ + 1]
  /\ GoTo("main", "test push")
  /\ UNCHANGED setup

TestDone ==
  /\ At("main", "test push") /\ index["main"] = message_length
  /\ GoTo("main", "receiver")
  /\ UNCHANGED <<setup, channel, index, failed, scheduling>>

(* Wrong on purpose: the receiver is launched with launch::post.           *)
PostReceiver ==
  /\ At("main", "receiver")
  /\ pc' = [pc EXCEPT !["main"] = "sender", !["receiver"] = "run"]
  /\ ready' = Append(ready, "receiver")
  /\ UNCHANGED <<setup, channel, index, failed, active, blocked>>

(* launch::dispatch switches to the receiver at once. *)
LaunchReceiver ==
  /\ At("main", "receiver")
  /\ pc' = [pc EXCEPT !["main"] = "sender", !["receiver"] = "run"]
  /\ active' = "receiver"
  /\ ready' = Append(ready, "main")
  /\ UNCHANGED <<setup, channel, index, failed, blocked>>

(* The default, launch::post, only makes the sender ready. *)
LaunchSender ==
  /\ At("main", "sender")
  /\ pc' = [pc EXCEPT !["main"] = "sleep", !["sender"] = "run"]
  /\ ready' = Append(ready, "sender")
  /\ UNCHANGED <<setup, channel, index, failed, active, blocked>>

(* sleep() blocks the thread, not only the context. *)
Sleep ==
  /\ At("main", "sleep")
  /\ GoTo("main", "join sender")
  /\ UNCHANGED <<setup, channel, index, failed, scheduling>>

(* Where main() is when it joins f. *)
JoinOf(f) == IF f = "sender" THEN "join sender" ELSE "join receiver"

(* f.join() and what follows it. *)
Join(f, next) ==
  /\ At("main", JoinOf(f))
  /\ IF pc[f] = "ended"
     THEN GoTo("main", next) /\ UNCHANGED scheduling
     ELSE Wait /\ UNCHANGED pc
  /\ UNCHANGED <<setup, channel, index, failed>>

JoinSender == Join("sender", "join receiver")
JoinReceiver == Join("receiver", "end")

-----------------------------------------------------------------------------
(* The fibers. *)

(* Wrong on purpose: the receiver reads one message more.                  *)
ReceiverWantsOneMore(f) ==
  index[f] < message_length + (IF f = "receiver" THEN 1 ELSE 0)

(* Wrong on purpose: the loops run once more.                              *)
OneMoreMessage(f) == index[f] <= message_length

(* The condition of the loops. *)
MoreMessages(f) == index[f] < message_length

Receive ==
  /\ At("receiver", "run") /\ MoreMessages("receiver")
  /\ \/ /\ ValuePop(Head(channel))
        /\ failed' = (Head(channel) # index["receiver"])
        /\ index' = [index EXCEPT !["receiver"] = @ + 1]
     \/ ValuePopWaits /\ UNCHANGED <<failed, index>>
  /\ UNCHANGED <<setup, pc>>

Send ==
  /\ At("sender", "run") /\ MoreMessages("sender")
  /\ \/ /\ Push(index["sender"])
        /\ index' = [index EXCEPT !["sender"] = @ + 1]
     \/ PushWaits /\ UNCHANGED index
  /\ UNCHANGED <<setup, pc, failed>>

(* The lambda of f returns: whoever joins f is woken, the next context     *)
(* runs.                                                                   *)
FiberEnds(f) ==
  /\ At(f, "run") /\ ~MoreMessages(f)
  /\ GoTo(f, "ended")
  /\ IF pc["main"] = JoinOf(f)
     THEN Resume(Woken("main")) /\ blocked' = blocked \ {"main"}
     ELSE Resume(ready) /\ UNCHANGED blocked
  /\ UNCHANGED <<setup, channel, index, failed>>

-----------------------------------------------------------------------------
ExampleInit ==
  /\ capacity \in Capacities /\ message_length \in Lengths
  /\ channel = << >>
  /\ pc = [ctx \in Contexts |-> IF ctx = "main" THEN "test push" ELSE "none"]
  /\ index = [ctx \in Contexts |-> 0]
  /\ failed = FALSE
  /\ active = "main" /\ ready = << >> /\ blocked = {}

(* main() has returned. *)
ExampleEnded == pc["main"] = "end" /\ UNCHANGED exampleVars

ExampleMainStep ==
  \/ TestPush \/ TestPop \/ TestDone
  \/ LaunchReceiver \/ LaunchSender \/ Sleep
  \/ JoinSender \/ JoinReceiver

FiberStep == Receive \/ Send \/ FiberEnds("receiver") \/ FiberEnds("sender")

ExampleNext == ExampleMainStep \/ FiberStep \/ ExampleEnded

ExampleSpec == ExampleInit /\ [][ExampleNext]_exampleVars

(* The thread is scheduled. *)
ExampleFairSpec == ExampleSpec /\ WF_exampleVars(ExampleMainStep \/ FiberStep)

-----------------------------------------------------------------------------
(* The types of the variables; no loop runs too often, and the channel     *)
(* never holds more than it can.                                           *)
ExampleTypeOK ==
  /\ capacity \in Capacities /\ message_length \in Lengths
  /\ channel \in Seq(Nat) /\ Len(channel) <= C!Room
  /\ pc \in [Contexts -> {"test push", "test pop", "receiver", "sender",
                          "sleep", "join sender", "join receiver", "end",
                          "none", "run", "ended"}]
  /\ index \in [Contexts -> 0 .. message_length]
  /\ failed \in BOOLEAN
  /\ active \in Contexts \cup {"dispatcher"}
  /\ ready \in Seq(Contexts)
  /\ blocked \subseteq Contexts

(* Sender and receiver, each waiting for the other, and main(), waiting    *)
(* for both, never wait all at once: there is no other thread, so the      *)
(* dispatcher would sleep for ever.                                        *)
ExampleNoDeadlock == active # "dispatcher"

(* The assertions hold: every message is the expected one, and no message  *)
(* of the first test is left for the receiver.                             *)
AssertionsHold == ~failed

(* The receiver starts right away instead of waiting for the join(): when  *)
(* main() goes on it is already waiting for its first message, if it reads *)
(* any, and the sender starts only when main() waits, after the sleep.     *)
StartOrder ==
  /\ active = "main" /\ pc["main"] \in {"sender", "sleep"} =>
       pc["receiver"] = "ended" \/ "receiver" \in blocked
  /\ active = "sender" => "main" \in blocked

(* main() returns: sender and receiver, each waiting for the other on one  *)
(* thread whenever the channel is full or empty, both end.                 *)
MainReturns == <>(pc["main"] = "end")
=============================================================================
