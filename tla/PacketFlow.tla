----------------------------- MODULE PacketFlow -----------------------------
(***************************************************************************)
(* What the programs around struct router expect of the network: each      *)
(* producer sends its packets in order, the packets of all producers come  *)
(* out in the order they went in, none is lost or invented, and at most    *)
(* Bound of them are under way.                                            *)
(***************************************************************************)
EXTENDS Integers, Sequences

CONSTANTS
  Producers,
  Count,      \* the packets of each producer
  Reads,      \* the packets that are read
  Bound       \* the packets that can be under way

VARIABLES
  sent,       \* how many packets each producer has sent
  underway,   \* the packets sent and not read yet, oldest first
  read        \* how many packets have been read

flow == <<sent, underway, read>>

Init ==
  /\ sent = [p \in Producers |-> 0]
  /\ underway = << >>
  /\ read = 0

Send(p) ==
  /\ sent[p] < Count
  /\ Len(underway) < Bound
  /\ underway' = Append(underway, <<p, sent[p]>>)
  /\ sent' = [sent EXCEPT ![p] = @ + 1]
  /\ UNCHANGED read

Receive ==
  /\ read < Reads
  /\ underway # << >>
  /\ underway' = Tail(underway)
  /\ read' = read + 1
  /\ UNCHANGED sent

Next == Receive \/ \E p \in Producers : Send(p)

Spec == Init /\ [][Next]_flow

(* Every packet is sent, and as many as are asked for are read.            *)
FairSpec ==
  /\ Spec
  /\ WF_flow(Receive)
  /\ \A p \in Producers : WF_flow(Send(p))
=============================================================================
