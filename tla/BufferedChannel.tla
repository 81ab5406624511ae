--------------------------- MODULE BufferedChannel ---------------------------
(***************************************************************************)
(* boost::fibers::buffered_channel, as the examples use it: never closed,  *)
(* push() waits while the channel is full, value_pop() while it is empty.  *)
(* It is not part of the repository. Its ring buffer keeps one of its      *)
(* capacity slots empty to tell full from empty.                           *)
(***************************************************************************)
EXTENDS Integers, Sequences

VARIABLES
  capacity,   \* the argument of the constructor, never modified
  channel     \* the values pushed and not popped yet, oldest first

Room == capacity - 1

Empty == channel = << >>
Full == Len(channel) >= Room

Push(v) == ~Full /\ channel' = Append(channel, v)

ValuePop(v) == ~Empty /\ v = Head(channel) /\ channel' = Tail(channel)
=============================================================================
